---- MODULE Spec2Model ----
(***************************************************************************)
(* Model of the query orchestration pipelines (database and API agents),   *)
(* their handlers, and the OAuth2 token provider of LangGraphAgent.        *)
(*                                                                         *)
(* Python values are represented as follows:                               *)
(*   - an Optional[str] is a string, None being the string "None" (no      *)
(*     modelled text equals "None");                                       *)
(*   - an Optional value of another type is a sequence: <<>> is None and   *)
(*     <<v>> is the value v;                                               *)
(*   - a dict is a function whose DOMAIN is the set of keys present;       *)
(*   - a text that the code inspects character by character is a sequence  *)
(*     of one-character strings;                                           *)
(*   - an exception is a record [type, message, error_code], its message   *)
(*     being a sequence of text fragments (str(exc) is the message).       *)
(***************************************************************************)
EXTENDS Integers, Sequences, FiniteSets, TLC

VARIABLES
  now,            \* datetime.utcnow(), in seconds
  token_cache,    \* RequestsOAuth2Provider._token_cache : cache key -> OAuth2Token
  p_pc,           \* position of the provider call in progress
  p_op,           \* provider method the caller invoked
  p_config,       \* its config argument
  p_current,      \* its current_token argument (Optional)
  p_ttr,          \* the token being refreshed (Optional)
  p_log,          \* token-endpoint exchanges of this call, in order
  p_result,       \* outcome of the call
  p_resp,         \* the token endpoint's answer to the last request of the call (Optional)
  provider_wired, \* ApiQueryHandler._oauth2_provider is not None
  _oauth2_tokens, \* ApiQueryHandler._oauth2_tokens : handler key -> OAuth2Token
  _engines,       \* SqlAlchemyDatabaseRepository._engines : database_url -> engine
  h_pc,           \* position of the handler's handle()
  command,        \* the command being handled
  state,          \* the workflow state threaded through the stages (a dict)
  stage,          \* the graph node to run next
  raised,         \* exception that escaped the agent runner (Optional)
  http_log,       \* calls made to the ApiRepository for this command, in order
  db_log,         \* calls made to the DatabaseRepository for this command, in order
  llm_log,        \* LLM chains invoked for this command, in order
  exc_log,        \* exceptions raised to the handler or to a node of its
                  \* pipeline while handling this command: [at, exc]
  result,         \* the QueryResult returned by handle() (Optional)
  a_config,       \* the AuthConfig whose to_headers() was called last
  a_headers,      \* the header map that call returned (Optional)
  r_config,       \* the OAuth2Config whose to_token_request_data() was called last
  r_data,         \* the payload that call returned (Optional)
  c_pc,           \* for each concurrent caller: position in _get_oauth2_headers
  c_config,       \* its command's oauth2_config
  c_current,      \* the token it read from _oauth2_tokens (Optional)
  c_ttr,          \* the token its get_valid_token is refreshing (Optional)
  c_result,       \* the outcome of its get_valid_token
  e_pc,           \* for each concurrent caller: position in _get_engine
  e_url,          \* its database_url
  e_created,      \* the engines create_engine has returned: [url, engine]
  e_used,         \* the engines _get_engine has returned: [url, engine]
  m_ids,          \* the selections the planner returned to the last select_endpoints
  m_state         \* the state that select_endpoints returned

oauthVars == <<now, token_cache, p_pc, p_op, p_config, p_current, p_ttr, p_log, p_result, p_resp>>

handlerVars == <<provider_wired, _oauth2_tokens, h_pc, command, result>>

pipelineVars == <<_engines, state, stage, raised, http_log, db_log, llm_log, exc_log>>

authVars == <<a_config, a_headers, r_config, r_data>>

concVars == <<c_pc, c_config, c_current, c_ttr, c_result, e_pc, e_url, e_created, e_used>>

matchVars == <<m_ids, m_state>>

vars == <<oauthVars, handlerVars, pipelineVars, authVars, concVars, matchVars>>

-----------------------------------------------------------------------------
(* Bounds *)

MaxTime == 2

\* the execution contexts (threads) that run commands at the same time
Threads == {"t1", "t2"}

-----------------------------------------------------------------------------
(* Python helpers *)

None == "None"
NoneOpt == <<>>
Some(x) == <<x>>

\* truthiness of an Optional[str]
Truthy(s) == s # None /\ s # ""

\* dict.get(key, default)
Get(d, k, default) == IF k \in DOMAIN d THEN d[k] ELSE default

\* d[k] = v on a dict
Put(d, k, v) == [x \in DOMAIN d \cup {k} |-> IF x = k THEN v ELSE d[x]]

EmptyDict == [x \in {} |-> None]

Exc(type, message, code) == [type |-> type, message |-> message, error_code |-> code]

-----------------------------------------------------------------------------
(* OAuth2 value objects *)

SafetyMargin == 30

OAuth2ConfigValid(c) ==
  /\ c.token_url # <<>>
  /\ (c.grant_type = "client_credentials") =>
        (c.client_id # NoneOpt /\ c.client_id # Some(<<>>) /\ Truthy(c.client_secret))
  /\ (c.grant_type = "password") =>
        (c.username # NoneOpt /\ c.username # Some(<<>>) /\ Truthy(c.password))

CandidateConfigs ==
  { [token_url |-> <<"u">>, grant_type |-> "client_credentials",
     client_id |-> Some(<<"a">>), client_secret |-> "s",
     username |-> NoneOpt, password |-> None],
    [token_url |-> <<"u">>, grant_type |-> "password",
     client_id |-> Some(<<"a">>), client_secret |-> None,
     username |-> Some(<<"b">>), password |-> "pw"],
    [token_url |-> <<"u">>, grant_type |-> "password",
     client_id |-> NoneOpt, client_secret |-> None,
     username |-> NoneOpt, password |-> None] }

\* the OAuth2Config objects that can be constructed
Configs == {c \in CandidateConfigs : OAuth2ConfigValid(c)}

OAuth2Token(access_token, token_type, expires_in, refresh_token, scope, obtained_at) ==
  [access_token |-> access_token, token_type |-> token_type,
   expires_in |-> expires_in, refresh_token |-> refresh_token,
   scope |-> scope, obtained_at |-> obtained_at]

\* an expiry test that turns true one second late
is_expired_StrictlyAfter(tok, t) ==
  IF tok.expires_in = NoneOpt THEN FALSE
  ELSE t > (tok.obtained_at + tok.expires_in[1]) - SafetyMargin

is_expired(tok, t) ==
  IF tok.expires_in = NoneOpt THEN FALSE
  ELSE t >= (tok.obtained_at + tok.expires_in[1]) - SafetyMargin

\* a header without the token type
as_header_AccessTokenOnly(tok) == [h \in {"Authorization"} |-> <<tok.access_token>>]

as_header(tok) == [h \in {"Authorization"} |-> <<tok.token_type, " ", tok.access_token>>]

\* token_data is the JSON object of the response (a dict)
from_response(token_data, t) ==
  OAuth2Token(token_data["access_token"],
              Get(token_data, "token_type", "Bearer"),
              Get(token_data, "expires_in", NoneOpt),
              Get(token_data, "refresh_token", None),
              Get(token_data, "scope", None),
              t)

-----------------------------------------------------------------------------
(* Token endpoint: what a POST to token_url can produce *)

ExpiresChoices == {29, 31, 32, 3600}

ResponseBodies ==
  { [k \in {"access_token"} |-> "abc"],
    [k \in {"error"} |-> "invalid_client"],
    EmptyDict }
  \cup { [k \in {"access_token", "expires_in"} |->
            IF k = "access_token" THEN "abc" ELSE Some(n)] : n \in ExpiresChoices }
  \cup { [k \in {"access_token", "expires_in", "refresh_token"} |->
            IF k = "access_token" THEN "xyz"
            ELSE IF k = "expires_in" THEN Some(n) ELSE "r1"] : n \in ExpiresChoices }

\* kind: "json" (2xx with a JSON object), "http_error" (raise_for_status raises
\* requests.HTTPError), "network_error" (requests.RequestException)
TokenEndpointResponses ==
  { [kind |-> "json", body |-> b] : b \in ResponseBodies }
  \cup { [kind |-> "http_error", body |-> b] :
            b \in { EmptyDict, [k \in {"error"} |-> "invalid_grant"] } }
  \cup { [kind |-> "network_error", body |-> EmptyDict] }

\* tokens a caller can hold from outside the provider
ExternalTokens ==
  { OAuth2Token("ext", "Bearer", e, r, None, 0) :
      e \in {NoneOpt, Some(31)}, r \in {None, "r0"} }

SuppliedTokens == {NoneOpt} \cup { Some(t) : t \in ExternalTokens }

-----------------------------------------------------------------------------
(* RequestsOAuth2Provider *)

\* str() of an Optional text inside an f-string
FmtOpt(o) == IF o = NoneOpt THEN <<"N", "o", "n", "e">> ELSE o[1]

_get_cache_key(config) ==
  config.token_url \o <<":">> \o FmtOpt(config.client_id) \o <<":">> \o FmtOpt(config.username)

\* a cache write that keeps an entry that is already there
_cache_token_KeepExisting(cache, config, token) ==
  IF _get_cache_key(config) \in DOMAIN cache THEN cache
  ELSE Put(cache, _get_cache_key(config), token)

_cache_token(cache, config, token) == Put(cache, _get_cache_key(config), token)

NoResult == [kind |-> "none", token |-> NoneOpt, exc |-> NoneOpt]
Returned(tok) == [kind |-> "token", token |-> Some(tok), exc |-> NoneOpt]
Raised(e) == [kind |-> "raise", token |-> NoneOpt, exc |-> Some(e)]

\* obtain_token dropping the error code of a response without access_token
ObtainOutcome_NoErrorCode(cache, config, resp, t) ==
  IF resp.kind = "json" THEN
    IF "access_token" \notin DOMAIN resp.body THEN
      [result |-> Raised(Exc("OAuth2Error", <<"Token response missing access_token">>, None)),
       cache |-> cache]
    ELSE
      LET token == from_response(resp.body, t) IN
      [result |-> Returned(token), cache |-> _cache_token(cache, config, token)]
  ELSE IF resp.kind = "http_error" THEN
    [result |-> Raised(Exc("OAuth2Error", <<"Token request failed">>,
                           Get(resp.body, "error", None))),
     cache |-> cache]
  ELSE
    [result |-> Raised(Exc("OAuth2Error", <<"Network error during token request">>, None)),
     cache |-> cache]

\* Outcome of obtain_token once the endpoint has answered with resp:
\* [result, cache]
ObtainOutcome(cache, config, resp, t) ==
  IF resp.kind = "json" THEN
    IF "access_token" \notin DOMAIN resp.body THEN
      [result |-> Raised(Exc("OAuth2Error", <<"Token response missing access_token">>,
                             Get(resp.body, "error", None))),
       cache |-> cache]
    ELSE
      LET token == from_response(resp.body, t) IN
      [result |-> Returned(token), cache |-> _cache_token(cache, config, token)]
  ELSE IF resp.kind = "http_error" THEN
    [result |-> Raised(Exc("OAuth2Error", <<"Token request failed">>,
                           Get(resp.body, "error", None))),
     cache |-> cache]
  ELSE
    [result |-> Raised(Exc("OAuth2Error", <<"Network error during token request">>, None)),
     cache |-> cache]

\* refresh_token without the preservation of the old refresh token
RefreshOutcome_NoPreserve(cache, config, current_token, resp, t) ==
  IF resp.kind = "json" THEN
    IF "access_token" \notin DOMAIN resp.body THEN
      [result |-> Raised(Exc("KeyError", <<"'access_token'">>, None)), cache |-> cache]
    ELSE
      LET token == from_response(resp.body, t) IN
      [result |-> Returned(token), cache |-> _cache_token(cache, config, token)]
  ELSE IF resp.kind = "http_error" THEN
    [result |-> Raised(Exc("OAuth2Error", <<"Token refresh failed">>,
                           Get(resp.body, "error", None))),
     cache |-> cache]
  ELSE
    [result |-> Raised(Exc("ConnectionError", <<"connection failed">>, None)),
     cache |-> cache]

\* Outcome of refresh_token(config, current_token) once the endpoint has
\* answered with resp (the request is only sent when a refresh token exists)
RefreshOutcome(cache, config, current_token, resp, t) ==
  IF resp.kind = "json" THEN
    LET token_data ==
          IF "refresh_token" \notin DOMAIN resp.body /\ Truthy(current_token.refresh_token)
          THEN Put(resp.body, "refresh_token", current_token.refresh_token)
          ELSE resp.body
    IN
    IF "access_token" \notin DOMAIN token_data THEN
      \* OAuth2Token.from_response indexes response_data['access_token']
      [result |-> Raised(Exc("KeyError", <<"'access_token'">>, None)), cache |-> cache]
    ELSE
      LET token == from_response(token_data, t) IN
      [result |-> Returned(token), cache |-> _cache_token(cache, config, token)]
  ELSE IF resp.kind = "http_error" THEN
    [result |-> Raised(Exc("OAuth2Error", <<"Token refresh failed">>,
                           Get(resp.body, "error", None))),
     cache |-> cache]
  ELSE
    \* only requests.HTTPError is caught in refresh_token
    [result |-> Raised(Exc("ConnectionError", <<"connection failed">>, None)),
     cache |-> cache]

\* the token get_valid_token hands to refresh_token
token_to_refresh(current_token, cached) ==
  IF current_token # NoneOpt THEN current_token ELSE cached

\* get_valid_token looking at the supplied token before the cache
get_valid_token_SuppliedFirst(cached, current_token, t) ==
  LET ttr == token_to_refresh(current_token, cached) IN
  IF current_token # NoneOpt /\ ~is_expired(current_token[1], t) THEN
    [do |-> "return", token |-> current_token]
  ELSE IF cached # NoneOpt /\ ~is_expired(cached[1], t) THEN
    [do |-> "return", token |-> cached]
  ELSE IF ttr # NoneOpt /\ Truthy(ttr[1].refresh_token) THEN
    [do |-> "refresh_token", token |-> ttr]
  ELSE
    [do |-> "obtain_token", token |-> NoneOpt]

\* get_valid_token up to its first token-endpoint request: what it does
\* with the cached entry and the supplied token at time t
get_valid_token(cached, current_token, t) ==
  LET ttr == token_to_refresh(current_token, cached) IN
  IF cached # NoneOpt /\ ~is_expired(cached[1], t) THEN
    [do |-> "return", token |-> cached]
  ELSE IF current_token # NoneOpt /\ ~is_expired(current_token[1], t) THEN
    [do |-> "return", token |-> current_token]
  ELSE IF ttr # NoneOpt /\ Truthy(ttr[1].refresh_token) THEN
    [do |-> "refresh_token", token |-> ttr]
  ELSE
    [do |-> "obtain_token", token |-> NoneOpt]

\* self._token_cache.get(cache_key)
CachedFor(config) ==
  IF _get_cache_key(config) \in DOMAIN token_cache
  THEN Some(token_cache[_get_cache_key(config)]) ELSE NoneOpt

GetValidTokenStart(config, current_token) ==
  LET plan == get_valid_token(CachedFor(config), current_token, now) IN
  /\ p_pc = "idle"
  /\ p_op' = "get_valid_token"
  /\ p_config' = config
  /\ p_current' = current_token
  /\ IF plan.do = "return" THEN
       /\ p_result' = Returned(plan.token[1])
       /\ p_pc' = "done"
       /\ p_ttr' = NoneOpt
       /\ p_log' = <<>>
     ELSE IF plan.do = "refresh_token" THEN
       /\ p_result' = NoResult
       /\ p_pc' = "refresh_request"
       /\ p_ttr' = plan.token
       /\ p_log' = <<"refresh_token">>
     ELSE
       /\ p_result' = NoResult
       /\ p_pc' = "obtain_request"
       /\ p_ttr' = NoneOpt
       /\ p_log' = <<"obtain_token">>
  /\ p_resp' = NoneOpt
  /\ UNCHANGED <<now, token_cache>>

\* a caller invokes provider.get_valid_token(config, current_token)
CallGetValidToken ==
  \E config \in Configs, current_token \in SuppliedTokens :
    /\ GetValidTokenStart(config, current_token)
    /\ UNCHANGED <<handlerVars, pipelineVars, authVars, concVars, matchVars>>

\* a caller invokes provider.obtain_token(config)
CallObtainToken ==
  \E config \in Configs :
    /\ p_pc = "idle"
    /\ p_op' = "obtain_token"
    /\ p_config' = config
    /\ p_current' = NoneOpt
    /\ p_ttr' = NoneOpt
    /\ p_result' = NoResult
    /\ p_pc' = "obtain_request"
    /\ p_log' = <<"obtain_token">>
    /\ p_resp' = NoneOpt
    /\ UNCHANGED <<handlerVars, pipelineVars, authVars, concVars, matchVars>>
    /\ UNCHANGED <<now, token_cache>>

\* a caller invokes provider.refresh_token(config, current_token)
CallRefreshToken ==
  \E config \in Configs, current_token \in ExternalTokens :
    /\ p_pc = "idle"
    /\ p_op' = "refresh_token"
    /\ p_config' = config
    /\ p_current' = Some(current_token)
    /\ p_ttr' = Some(current_token)
    /\ IF ~Truthy(current_token.refresh_token) THEN
         /\ p_result' = Raised(Exc("OAuth2Error",
                                   <<"No refresh token available, must re-authenticate">>, None))
         /\ p_pc' = "done"
         /\ p_log' = <<>>
       ELSE
         /\ p_result' = NoResult
         /\ p_pc' = "refresh_request"
         /\ p_log' = <<"refresh_token">>
    /\ p_resp' = NoneOpt
    /\ UNCHANGED <<handlerVars, pipelineVars, authVars, concVars, matchVars>>
    /\ UNCHANGED <<now, token_cache>>

\* the token endpoint answers the refresh request
RefreshResponse ==
  \E resp \in TokenEndpointResponses :
    LET out == RefreshOutcome(token_cache, p_config, p_ttr[1], resp, now) IN
    /\ p_pc = "refresh_request"
    /\ p_resp' = Some(resp)
    /\ token_cache' = out.cache
    /\ IF /\ p_op = "get_valid_token"
          /\ out.result.kind = "raise"
          /\ out.result.exc[1].type = "OAuth2Error"
       THEN \* except OAuth2Error: pass; then self.obtain_token(config)
         /\ p_pc' = "obtain_request"
         /\ p_log' = Append(p_log, "obtain_token")
         /\ p_result' = NoResult
       ELSE
         /\ p_pc' = "done"
         /\ p_result' = out.result
         /\ p_log' = p_log
    /\ UNCHANGED <<handlerVars, pipelineVars, authVars, concVars, matchVars>>
    /\ UNCHANGED <<now, p_op, p_config, p_current, p_ttr>>

\* the token endpoint answers the obtain request
ObtainResponse ==
  \E resp \in TokenEndpointResponses :
    LET out == ObtainOutcome(token_cache, p_config, resp, now) IN
    /\ p_pc = "obtain_request"
    /\ p_resp' = Some(resp)
    /\ token_cache' = out.cache
    /\ p_pc' = "done"
    /\ p_result' = out.result
    /\ UNCHANGED <<handlerVars, pipelineVars, authVars, concVars, matchVars>>
    /\ UNCHANGED <<now, p_op, p_config, p_current, p_ttr, p_log>>

\* a clear_cache that drops only the entry of the config used last
ClearCache_OnlyLastConfig ==
  /\ p_pc = "idle"
  /\ token_cache' = [k \in DOMAIN token_cache \ {_get_cache_key(p_config)} |-> token_cache[k]]
  /\ p_op' = "clear_cache"
  /\ p_pc' = "done"
  /\ p_result' = NoResult
  /\ UNCHANGED <<handlerVars, pipelineVars, authVars, concVars, matchVars>>
  /\ UNCHANGED <<now, p_config, p_current, p_ttr, p_log, p_resp>>

\* provider.clear_cache()
ClearCache ==
  /\ p_pc = "idle"
  /\ token_cache' = EmptyDict
  /\ p_op' = "clear_cache"
  /\ p_pc' = "done"
  /\ p_result' = NoResult
  /\ UNCHANGED <<handlerVars, pipelineVars, authVars, concVars, matchVars>>
  /\ UNCHANGED <<now, p_config, p_current, p_ttr, p_log, p_resp>>

\* the caller has received the outcome
ProviderReturn ==
  /\ p_pc = "done"
  /\ p_pc' = "idle"
  /\ p_op' = "none"
  /\ p_current' = NoneOpt
  /\ p_ttr' = NoneOpt
  /\ p_log' = <<>>
  /\ p_result' = NoResult
  /\ p_resp' = NoneOpt
  /\ UNCHANGED <<handlerVars, pipelineVars, authVars, concVars, matchVars>>
  /\ UNCHANGED <<now, token_cache, p_config>>

\* time passes between calls and while a request is in flight
Tick ==
  /\ p_pc # "done"
  /\ now < MaxTime
  /\ now' = now + 1
  /\ UNCHANGED <<handlerVars, pipelineVars, authVars, concVars, matchVars>>
  /\ UNCHANGED <<token_cache, p_pc, p_op, p_config, p_current, p_ttr, p_log, p_result, p_resp>>

InitProvider ==
  /\ now = 0
  /\ token_cache = EmptyDict
  /\ p_pc = "idle"
  /\ p_op = "none"
  /\ p_config = CHOOSE c \in Configs : TRUE
  /\ p_current = NoneOpt
  /\ p_ttr = NoneOpt
  /\ p_log = <<>>
  /\ p_result = NoResult
  /\ p_resp = NoneOpt

InitIdle ==
  /\ _oauth2_tokens = EmptyDict
  /\ _engines = EmptyDict
  /\ h_pc = "idle"
  /\ command = EmptyDict
  /\ state = EmptyDict
  /\ stage = "none"
  /\ raised = NoneOpt
  /\ http_log = <<>>
  /\ db_log = <<>>
  /\ llm_log = <<>>
  /\ exc_log = <<>>
  /\ result = NoneOpt
  /\ a_config = EmptyDict
  /\ a_headers = NoneOpt
  /\ r_config = EmptyDict
  /\ r_data = NoneOpt
  /\ c_pc = [t \in Threads |-> "idle"]
  /\ c_config = [t \in Threads |-> CHOOSE c \in Configs : TRUE]
  /\ c_current = [t \in Threads |-> NoneOpt]
  /\ c_ttr = [t \in Threads |-> NoneOpt]
  /\ c_result = [t \in Threads |-> NoResult]
  /\ e_pc = [t \in Threads |-> "idle"]
  /\ e_url = [t \in Threads |-> ""]
  /\ e_created = {}
  /\ e_used = {}
  /\ m_ids = <<>>
  /\ m_state = EmptyDict

NextOAuth ==
  \/ CallGetValidToken
  \/ CallObtainToken
  \/ CallRefreshToken
  \/ RefreshResponse
  \/ ObtainResponse
  \/ ClearCache
  \/ ProviderReturn
  \/ Tick

InitOAuth == InitProvider /\ InitIdle /\ provider_wired = TRUE

\* the handlers as the container builds them, with or without a provider
Init == InitProvider /\ InitIdle /\ provider_wired \in BOOLEAN

SpecOAuth == InitOAuth /\ [][NextOAuth]_vars

-----------------------------------------------------------------------------
(* Texts and small Python helpers used by the pipelines *)

\* str(x) of an Optional text
StrOpt(o) == IF o = NoneOpt THEN <<"None">> ELSE o[1]

\* d.update(e)
Update(d, e) == [x \in DOMAIN d \cup DOMAIN e |-> IF x \in DOMAIN e THEN e[x] ELSE d[x]]

\* seq[:n]
Take(seq, n) == SubSeq(seq, 1, IF n < Len(seq) THEN n ELSE Len(seq))

Min(S) == CHOOSE x \in S : \A y \in S : x <= y

RECURSIVE Concat(_)
Concat(seqs) == IF seqs = <<>> THEN <<>> ELSE Head(seqs) \o Concat(Tail(seqs))

\* str.upper() on the method names that occur
MethodUpper(m) ==
  CASE m \in {"get", "Get", "GET"} -> "GET"
    [] m \in {"post", "POST"} -> "POST"
    [] m \in {"delete", "DELETE"} -> "DELETE"
    [] m \in {"parameters", "PARAMETERS"} -> "PARAMETERS"
    [] OTHER -> m

\* str.lower() on the method names that occur
MethodLower(m) ==
  CASE m \in {"get", "Get", "GET"} -> "get"
    [] m \in {"post", "POST"} -> "post"
    [] m \in {"delete", "DELETE"} -> "delete"
    [] m \in {"parameters", "PARAMETERS"} -> "parameters"
    [] OTHER -> m

\* reading a key that no node writes
HasError_WrongKey(st) == "errors" \in DOMAIN st /\ st["errors"] # <<>>

\* state.get('error') is truthy
HasError(st) == "error" \in DOMAIN st /\ st["error"] # <<>>

-----------------------------------------------------------------------------
(* RequestsApiRepository: discovery *)

HttpMethods == {"get", "post", "put", "patch", "delete", "head", "options"}

\* urlparse(url): scheme://netloc of a URL <<origin, path>>
Origin(url) == <<url[1]>>

_get_api_base_url(spec, fallback_url) ==
  IF Get(spec, "servers", <<>>) # <<>> THEN spec["servers"][1]
  ELSE IF Get(spec, "host", <<>>) # <<>> THEN <<"https://">> \o spec["host"] \o Get(spec, "basePath", <<>>)
  ELSE Origin(fallback_url)

_parse_endpoint(path, method, details, api_base) ==
  [path |-> path,
   url |-> api_base \o <<path>>,
   method |-> method,
   operation_id |-> details]

\* spec["paths"] is the sequence of (path, method key, operationId) entries
\* of the document, in document order
_parse_openapi_spec(spec, base_url) ==
  LET entries == Get(spec, "paths", <<>>)
      api_base == _get_api_base_url(spec, base_url)
      kept == SelectSeq(entries, LAMBDA e : MethodLower(e.method) \in HttpMethods)
  IN [i \in 1..Len(kept) |->
        _parse_endpoint(kept[i].path, MethodUpper(kept[i].method), kept[i].operationId, api_base)]

PathEntry(path, method, operationId) ==
  [path |-> path, method |-> method, operationId |-> operationId]

\* OpenAPI documents the spec URL can deliver
SpecDocs ==
  { [k \in {"paths"} |-> <<>>],
    [k \in {"paths"} |-> << PathEntry("/users", "get", "listUsers") >>],
    [k \in {"paths"} |-> << PathEntry("/users", "get", ""),
                            PathEntry("/users", "post", "createUser") >>],
    [k \in {"paths"} |-> << PathEntry("/items/{id}", "get", "getItem") >>],
    ("servers" :> << <<"https://api">> >>) @@
    ("paths" :> << PathEntry("/users", "parameters", ""),
                   PathEntry("/items/{id}", "DELETE", "deleteItem"),
                   PathEntry("/users", "Get", "listUsers") >>) }

\* The web as one discovery finds it: the answer for the swagger_url, for
\* the spec URL embedded in its page, and for each of the common paths.
\* An answer to one GET is a JSON document (status 200), an HTML page in
\* which the patterns of _extract_spec_url_from_html find spec_path or
\* nothing, another text, a 404 status, or no answer at all.
Webs ==
  LET Answer(kind, document, spec_path) ==
        [kind |-> kind, doc |-> document, spec_path |-> spec_path]
      doc == [k \in {"paths"} |-> << PathEntry("/users", "get", "listUsers") >>]
      no == Answer("not_200", EmptyDict, NoneOpt)
      none_found == [i \in 1..7 |->
                      CASE i = 2 -> Answer("network_error", EmptyDict, NoneOpt)
                        [] i = 3 -> Answer("text", EmptyDict, NoneOpt)
                        [] OTHER -> no]
      third_found == [none_found EXCEPT ![3] = Answer("json", doc, NoneOpt)]
  IN { [first |-> Answer("json", d, NoneOpt), embedded |-> no, common |-> none_found] :
         d \in SpecDocs }
     \cup
     { [first |-> f, embedded |-> e, common |-> c] :
         f \in { Answer("html", EmptyDict, Some("/swagger.json")),
                 Answer("html", EmptyDict, NoneOpt),
                 Answer("text", EmptyDict, NoneOpt),
                 Answer("not_200", EmptyDict, NoneOpt) },
         e \in { Answer("json", doc, NoneOpt), Answer("not_200", EmptyDict, NoneOpt),
                 Answer("text", EmptyDict, NoneOpt) },
         c \in { none_found, third_found } }

\* the outcome of a discovery is a document or an exception, and the GETs made
_try_common_spec_paths(base_url, web) ==
  LET FetchOutcome(kind, spec, exc, requests) ==
        [kind |-> kind, spec |-> spec, exc |-> exc, requests |-> requests]
      common_paths == << "/swagger.json", "/openapi.json", "/v3/api-docs", "/v2/api-docs",
                         "/api-docs", "/swagger/v1/swagger.json", "/api/swagger.json" >>
      got(i) == [url |-> Origin(base_url) \o <<common_paths[i]>>, answer |-> web.common[i].kind]
      found == { i \in 1..Len(common_paths) : web.common[i].kind = "json" }
  IN IF found # {}
     THEN FetchOutcome("spec", web.common[Min(found)].doc, NoneOpt,
                       [i \in 1..Min(found) |-> got(i)])
     ELSE FetchOutcome("raise", EmptyDict,
                       Some(Exc("ValueError",
                                <<"No se pudo encontrar el spec OpenAPI/Swagger en ">> \o base_url
                                \o <<". Intenta proporcionar la URL directa al archivo .json del spec.">>,
                                None)),
                       [i \in 1..Len(common_paths) |-> got(i)])

_fetch_swagger_spec(swagger_url, web) ==
  LET FetchOutcome(kind, spec, exc, requests) ==
        [kind |-> kind, spec |-> spec, exc |-> exc, requests |-> requests]
      first == [url |-> swagger_url, answer |-> web.first.kind]
      HTTPError(url) == Exc("HTTPError", <<"404 Client Error: Not Found for url: ">> \o url, None)
  IN
  IF web.first.kind = "network_error" THEN
    FetchOutcome("raise", EmptyDict, Some(Exc("ConnectionError", <<"Connection refused">>, None)),
                 <<first>>)
  ELSE IF web.first.kind = "not_200" THEN
    FetchOutcome("raise", EmptyDict, Some(HTTPError(swagger_url)), <<first>>)
  ELSE IF web.first.kind = "json" THEN
    FetchOutcome("spec", web.first.doc, NoneOpt, <<first>>)
  ELSE IF web.first.kind = "html" /\ web.first.spec_path # NoneOpt THEN
    LET spec_url == Origin(swagger_url) \o web.first.spec_path
        second == [url |-> spec_url, answer |-> web.embedded.kind]
    IN IF web.embedded.kind = "json"
       THEN FetchOutcome("spec", web.embedded.doc, NoneOpt, <<first, second>>)
       ELSE IF web.embedded.kind = "text"
       THEN FetchOutcome("raise", EmptyDict,
                         Some(Exc("JSONDecodeError",
                                  <<"Expecting value: line 1 column 1 (char 0)">>, None)),
                         <<first, second>>)
       ELSE FetchOutcome("raise", EmptyDict, Some(HTTPError(spec_url)), <<first, second>>)
  ELSE
    LET rest == _try_common_spec_paths(swagger_url, web) IN
    FetchOutcome(rest.kind, rest.spec, rest.exc, <<first>> \o rest.requests)

\* what discover_endpoints_from_swagger can find at the swagger_url of the
\* commands
FetchOutcomes ==
  { _fetch_swagger_spec(<<"https://host", "/docs">>, web) : web \in Webs }

\* what execute_request can produce for one request
ExecOutcomes ==
  { [kind |-> "return",
     response |-> ("status_code" :> 200) @@ ("data" :> "payload"), exc |-> NoneOpt],
    [kind |-> "return",
     response |-> ("status_code" :> 404) @@ ("error" :> <<"404 Client Error">>) @@ ("data" :> None),
     exc |-> NoneOpt],
    [kind |-> "return",
     response |-> ("status_code" :> 0) @@ ("error" :> <<"connection failed">>) @@ ("data" :> None),
     exc |-> NoneOpt],
    [kind |-> "raise", response |-> EmptyDict,
     exc |-> Some(Exc("RuntimeError", <<"boom">>, None))] }

-----------------------------------------------------------------------------
(* LLM chains *)

\* a selection returned by the planner: a dict (keys among path, method,
\* operation_id) or a bare string
DictSelection(d) == [is_dict |-> TRUE, d |-> d, s |-> ""]
StrSelection(s) == [is_dict |-> FALSE, d |-> EmptyDict, s |-> s]

Selections ==
  { DictSelection(("path" :> "/users") @@ ("method" :> "get")),
    DictSelection(("path" :> "/users") @@ ("method" :> "POST")),
    DictSelection(("path" :> "/items/{id}")),
    DictSelection(("path" :> "/nope") @@ ("method" :> "GET") @@ ("operation_id" :> "nope")),
    StrSelection("listUsers") }

MaxSelections == 2

RECURSIVE SeqsUpTo(_, _)
SeqsUpTo(S, n) ==
  IF n = 0 THEN {<<>>}
  ELSE LET shorter == SeqsUpTo(S, n - 1) IN
       shorter \cup { Append(q, x) : q \in shorter, x \in S }

\* outcome of self._planner.invoke(...): a dict with "endpoints", a dict
\* without it, a JSON value that is not a dict, or an exception
PlannerOutcomes ==
  { [kind |-> "dict", value |-> [k \in {"endpoints"} |-> sels], exc |-> NoneOpt] :
       sels \in SeqsUpTo(Selections, MaxSelections) }
  \cup { [kind |-> "dict", value |-> EmptyDict, exc |-> NoneOpt],
         [kind |-> "list", value |-> EmptyDict, exc |-> NoneOpt],
         [kind |-> "raise", value |-> EmptyDict,
          exc |-> Some(Exc("OutputParserException", <<"Invalid json output">>, None))] }

\* outcome of self._summarizer.invoke(...): a text or an exception
SummarizerOutcomes ==
  { [kind |-> "text", text |-> <<"analysis">>, exc |-> NoneOpt],
    [kind |-> "text", text |-> <<>>, exc |-> NoneOpt],
    [kind |-> "raise", text |-> <<>>,
     exc |-> Some(Exc("RateLimitError", <<"llm unavailable">>, None))] }

-----------------------------------------------------------------------------
(* ApiAgentActions: each node as a function of the state and of what the     *)
(* collaborators answer; the result carries the new state and the calls made *)

NodeResult(st, http, llm, excs) == [state |-> st, http |-> http, llm |-> llm, excs |-> excs]

Caught(at, exc) == [at |-> at, exc |-> exc]

discover(st, fetched) ==
  LET auth_headers == Get(st, "auth_headers", EmptyDict)
      call == [call |-> "discover_endpoints_from_swagger", method |-> "GET",
               url |-> st["swagger_url"], headers |-> auth_headers,
               requests |-> fetched.requests]
  IN
  IF fetched.kind = "raise" THEN
    NodeResult(Update(st, ("error" :> (<<"Error descubriendo endpoints: ">> \o fetched.exc[1].message))
                          @@ ("step" :> "error")),
               <<call>>, <<>>, <<Caught("discover", fetched.exc[1])>>)
  ELSE
    LET endpoints == _parse_openapi_spec(fetched.spec, st["swagger_url"]) IN
    NodeResult(Update(st, ("discovered_endpoints" :> endpoints)
                          @@ ("total_endpoints" :> Len(endpoints))
                          @@ ("step" :> "endpoints_discovered")),
               <<call>>, <<>>, <<>>)

SelPath(sel) == IF sel.is_dict THEN Get(sel.d, "path", "") ELSE sel.s
SelMethod(sel) == IF sel.is_dict THEN MethodUpper(Get(sel.d, "method", "")) ELSE ""
SelOpId(sel) == IF sel.is_dict THEN Get(sel.d, "operation_id", "") ELSE sel.s

EndpointMatches(ep, sel) ==
  \/ ep.operation_id = SelOpId(sel)
  \/ ep.path = SelPath(sel) /\ (SelMethod(sel) = "" \/ ep.method = SelMethod(sel))

_match_selected_endpoints(selected_ids, all_endpoints) ==
  Concat([k \in 1..Len(selected_ids) |->
            LET hits == {i \in 1..Len(all_endpoints) :
                           EndpointMatches(all_endpoints[i], selected_ids[k])}
            IN IF hits = {} THEN <<>> ELSE <<all_endpoints[Min(hits)]>>])

\* a select_endpoints that asks the planner even when nothing was discovered
select_endpoints_NoEmptyCheck(st, plan) ==
  IF HasError(st) THEN NodeResult(st, <<>>, <<>>, <<>>)
  ELSE
    LET endpoints == Get(st, "discovered_endpoints", <<>>) IN
    IF plan.kind = "raise" THEN
      NodeResult(Update(st, ("error" :> (<<"Error seleccionando endpoints: ">> \o plan.exc[1].message))
                            @@ ("step" :> "error")),
                 <<>>, <<"planner">>, <<Caught("select", plan.exc[1])>>)
    ELSE
      LET selected_ids == IF plan.kind = "dict" THEN Get(plan.value, "endpoints", <<>>) ELSE <<>>
          selected_endpoints == _match_selected_endpoints(selected_ids, endpoints)
      IN NodeResult(Update(st, ("selected_endpoints" :>
                                   Take(selected_endpoints, Get(st, "max_endpoints", 5)))
                               @@ ("step" :> "endpoints_selected")),
                    <<>>, <<"planner">>, <<>>)

select_endpoints(st, plan) ==
  IF HasError(st) THEN NodeResult(st, <<>>, <<>>, <<>>)
  ELSE
    LET endpoints == Get(st, "discovered_endpoints", <<>>) IN
    IF endpoints = <<>> THEN
      NodeResult(Update(st, ("error" :> <<"No se encontraron endpoints en el spec">>)
                            @@ ("step" :> "error")),
                 <<>>, <<>>, <<>>)
    ELSE IF plan.kind = "raise" THEN
      NodeResult(Update(st, ("error" :> (<<"Error seleccionando endpoints: ">> \o plan.exc[1].message))
                            @@ ("step" :> "error")),
                 <<>>, <<"planner">>, <<Caught("select", plan.exc[1])>>)
    ELSE
      LET selected_ids == IF plan.kind = "dict" THEN Get(plan.value, "endpoints", <<>>) ELSE <<>>
          selected_endpoints == _match_selected_endpoints(selected_ids, endpoints)
      IN NodeResult(Update(st, ("selected_endpoints" :>
                                   Take(selected_endpoints, Get(st, "max_endpoints", 5)))
                               @@ ("step" :> "endpoints_selected")),
                    <<>>, <<"planner">>, <<>>)

\* select_endpoints applied to the endpoints of a document and to a list of
\* selections of the planner
CallSelectEndpoints ==
  \E doc \in SpecDocs, selected_ids \in SeqsUpTo(Selections, MaxSelections),
     max_endpoints \in {1, 2} :
    LET swagger_url == <<"https://host", "/docs">>
        st == ("swagger_url" :> swagger_url) @@ ("user_query" :> <<"q">>)
              @@ ("max_endpoints" :> max_endpoints)
              @@ ("discovered_endpoints" :> _parse_openapi_spec(doc, swagger_url))
        plan == [kind |-> "dict", value |-> [k \in {"endpoints"} |-> selected_ids],
                 exc |-> NoneOpt]
    IN /\ m_ids' = selected_ids
       /\ m_state' = select_endpoints(st, plan).state
       /\ UNCHANGED <<oauthVars, handlerVars, pipelineVars, authVars, concVars>>

SpecMatch == Init /\ [][CallSelectEndpoints]_vars

\* The URL execute_request sends the request to: request['url'] with '{key}'
\* replaced by str(value) for every item of request.get('path_params') or {}.
\* fetch_data builds its request without a path_params key, so it passes {}.
RequestedUrl(url, path_params) ==
  [i \in 1..Len(url) |->
     IF url[i] = "/items/{id}" /\ "id" \in DOMAIN path_params
     THEN CASE path_params["id"] = "7" -> "/items/7"
            [] OTHER -> "/items/0"
     ELSE url[i]]

\* skipping POST only
AutoExecuted_NotPost(method) == method # "POST"

\* the methods fetch_data executes automatically
AutoExecuted(method) == method = "GET"

\* a fetch_data that sends a request again when it raised
fetch_data_RetryOnError(st, responses) ==
  IF HasError(st) THEN NodeResult(st, <<>>, <<>>, <<>>)
  ELSE
    LET auth_headers == Get(st, "auth_headers", EmptyDict)
        selected == Get(st, "selected_endpoints", <<>>)
        method(i) == MethodUpper(selected[i].method)
        request_payload(i) ==
          [call |-> "execute_request", method |-> method(i),
           url |-> selected[i].url, headers |-> auth_headers,
           requested |-> RequestedUrl(selected[i].url, EmptyDict)]
        response(i) ==
          IF ~AutoExecuted(method(i)) THEN
            ("skipped" :> TRUE)
            @@ ("reason" :> <<"Metodo ", method(i), " omitido por seguridad (solo GET automatico)">>)
          ELSE IF responses[i].kind = "raise" THEN
            [k \in {"error"} |-> responses[i].exc[1].message]
          ELSE responses[i].response
        results == [i \in 1..Len(selected) |->
                      [endpoint |-> selected[i], source |-> selected[i].path,
                       response |-> response(i)]]
        calls == Concat([i \in 1..Len(selected) |->
                           IF ~AutoExecuted(method(i)) THEN <<>>
                           ELSE IF responses[i].kind = "raise"
                           THEN <<request_payload(i), request_payload(i)>>
                           ELSE <<request_payload(i)>>])
        excs == Concat([i \in 1..Len(selected) |->
                          IF AutoExecuted(method(i)) /\ responses[i].kind = "raise"
                          THEN <<Caught("fetch", responses[i].exc[1])>> ELSE <<>>])
    IN NodeResult(Update(st, ("api_data" :> results) @@ ("step" :> "data_fetched")),
                  calls, <<>>, excs)

\* responses[i] is what execute_request answers for the i-th selected endpoint
fetch_data(st, responses) ==
  IF HasError(st) THEN NodeResult(st, <<>>, <<>>, <<>>)
  ELSE
    LET auth_headers == Get(st, "auth_headers", EmptyDict)
        selected == Get(st, "selected_endpoints", <<>>)
        method(i) == MethodUpper(selected[i].method)
        request_payload(i) ==
          [call |-> "execute_request", method |-> method(i),
           url |-> selected[i].url, headers |-> auth_headers,
           requested |-> RequestedUrl(selected[i].url, EmptyDict)]
        response(i) ==
          IF ~AutoExecuted(method(i)) THEN
            ("skipped" :> TRUE)
            @@ ("reason" :> <<"Metodo ", method(i), " omitido por seguridad (solo GET automatico)">>)
          ELSE IF responses[i].kind = "raise" THEN
            [k \in {"error"} |-> responses[i].exc[1].message]
          ELSE responses[i].response
        results == [i \in 1..Len(selected) |->
                      [endpoint |-> selected[i], source |-> selected[i].path,
                       response |-> response(i)]]
        calls == Concat([i \in 1..Len(selected) |->
                           IF ~AutoExecuted(method(i)) THEN <<>> ELSE <<request_payload(i)>>])
        excs == Concat([i \in 1..Len(selected) |->
                          IF AutoExecuted(method(i)) /\ responses[i].kind = "raise"
                          THEN <<Caught("fetch", responses[i].exc[1])>> ELSE <<>>])
    IN NodeResult(Update(st, ("api_data" :> results) @@ ("step" :> "data_fetched")),
                  calls, <<>>, excs)

analyze(st, summary) ==
  IF HasError(st) THEN NodeResult(st, <<>>, <<>>, <<>>)
  ELSE IF Get(st, "api_data", <<>>) = <<>> THEN
    NodeResult(Update(st, ("analysis" :> <<"No se obtuvieron datos de la API.">>)
                          @@ ("step" :> "analysis_complete")),
               <<>>, <<>>, <<>>)
  ELSE IF summary.kind = "raise" THEN
    NodeResult(Update(st, ("error" :> (<<"Error analizando datos: ">> \o summary.exc[1].message))
                          @@ ("step" :> "error")),
               <<>>, <<"summarizer">>, <<Caught("analyze", summary.exc[1])>>)
  ELSE
    NodeResult(Update(st, ("analysis" :> summary.text) @@ ("step" :> "analysis_complete")),
               <<>>, <<"summarizer">>, <<>>)

\* state.get('analysis'): None when the key is absent
AnalysisOpt(st) == IF "analysis" \in DOMAIN st THEN Some(st["analysis"]) ELSE NoneOpt

finalize(st) ==
  IF HasError(st) THEN
    NodeResult(Update(st, ("final_response" :> NoneOpt) @@ ("step" :> "complete")),
               <<>>, <<>>, <<>>)
  ELSE
    NodeResult(Update(st, ("final_response" :> AnalysisOpt(st)) @@ ("step" :> "complete")),
               <<>>, <<>>, <<>>)

-----------------------------------------------------------------------------
(* Commands *)

\* to_headers with a BASIC branch that does not test the password
to_headers_BasicWithoutPasswordTest(auth_config) ==
  IF auth_config["auth_type"] = "bearer" /\ Truthy(auth_config["token"]) THEN
    [h \in {"Authorization"} |-> <<"Bearer", " ", auth_config["token"]>>]
  ELSE IF auth_config["auth_type"] = "api_key" /\ Truthy(auth_config["api_key"]) THEN
    [h \in {auth_config["api_key_header"]} |-> <<auth_config["api_key"]>>]
  ELSE IF auth_config["auth_type"] = "basic" /\ Truthy(auth_config["username"]) THEN
    [h \in {"Authorization"} |->
       <<"Basic", " ", "b64(", auth_config["username"], ":", auth_config["password"], ")">>]
  ELSE EmptyDict

\* AuthConfig.to_headers
to_headers(auth_config) ==
  IF auth_config["auth_type"] = "bearer" /\ Truthy(auth_config["token"]) THEN
    [h \in {"Authorization"} |-> <<"Bearer", " ", auth_config["token"]>>]
  ELSE IF auth_config["auth_type"] = "api_key" /\ Truthy(auth_config["api_key"]) THEN
    [h \in {auth_config["api_key_header"]} |-> <<auth_config["api_key"]>>]
  ELSE IF /\ auth_config["auth_type"] = "basic"
          /\ Truthy(auth_config["username"]) /\ Truthy(auth_config["password"]) THEN
    [h \in {"Authorization"} |->
       <<"Basic", " ", "b64(", auth_config["username"], ":", auth_config["password"], ")">>]
  ELSE EmptyDict

\* ApiQueryCommand.get_headers
get_headers(cmd) ==
  IF cmd.extra_headers # NoneOpt /\ cmd.extra_headers[1] # EmptyDict
  THEN Update(to_headers(cmd.auth_config), cmd.extra_headers[1])
  ELSE to_headers(cmd.auth_config)

AuthConfig(auth_type, token, api_key, username, password) ==
  ("auth_type" :> auth_type) @@ ("token" :> token) @@ ("api_key" :> api_key)
  @@ ("api_key_header" :> "X-API-Key") @@ ("username" :> username) @@ ("password" :> password)

\* the AuthConfig objects that can be constructed
AuthConfigs ==
  { Put(AuthConfig(ty, tk, ak, un, pw), "api_key_header", hd) :
      ty \in {"none", "bearer", "api_key", "basic"},
      tk \in {None, "", "tok"},
      ak \in {None, "key"},
      hd \in {"X-API-Key", "X-Token"},
      un \in {None, "u"},
      pw \in {None, "", "p"} }

\* a caller invokes auth_config.to_headers()
CallToHeaders ==
  \E auth_config \in AuthConfigs :
    /\ a_config' = auth_config
    /\ a_headers' = Some(to_headers(auth_config))
    /\ UNCHANGED <<oauthVars, handlerVars, pipelineVars, concVars, matchVars, r_config, r_data>>

\* OAuth2Config.to_token_request_data(); scopes is a list of texts, the
\* payload's scope their ' '.join
to_token_request_data(config) ==
  LET entry(k, present, v) == IF present THEN [x \in {k} |-> v] ELSE EmptyDict
      joined == [i \in 1..(2 * Len(config.scopes) - 1) |->
                  IF i % 2 = 1 THEN config.scopes[(i + 1) \div 2] ELSE " "]
      data0 == [x \in {"grant_type"} |-> config.grant_type]
      data1 == Update(data0, entry("client_id",
                                   config.client_id # NoneOpt /\ config.client_id # Some(<<>>),
                                   StrOpt(config.client_id)))
      data2 == Update(data1, entry("client_secret", Truthy(config.client_secret),
                                   config.client_secret))
      data3 == Update(data2, entry("username",
                                   config.username # NoneOpt /\ config.username # Some(<<>>),
                                   StrOpt(config.username)))
      data4 == Update(data3, entry("password", Truthy(config.password), config.password))
      data5 == Update(data4, entry("scope", config.scopes # <<>>, joined))
      data6 == Update(data5, entry("audience", Truthy(config.audience), config.audience))
  IN Update(data6, config.extra_params)

\* a caller invokes config.to_token_request_data() on a constructed
\* OAuth2Config
CallToTokenRequestData ==
  \E base \in Configs,
     scopes \in { <<>>, <<"read">>, <<"read", "write">> },
     audience \in { None, "api" },
     keys \in SUBSET {"grant_type", "client_id", "scope", "resource"} :
    LET extra_params == [k \in keys |->
                          CASE k = "grant_type" -> "refresh_token"
                            [] k = "client_id" -> <<"z">>
                            [] k = "scope" -> <<"admin">>
                            [] k = "resource" -> "r"]
        config == [x \in DOMAIN base \cup {"scopes", "audience", "extra_params"} |->
                    CASE x = "scopes" -> scopes
                      [] x = "audience" -> audience
                      [] x = "extra_params" -> extra_params
                      [] OTHER -> base[x]]
    IN /\ r_config' = config
       /\ r_data' = Some(to_token_request_data(config))
       /\ UNCHANGED <<oauthVars, handlerVars, pipelineVars, concVars, matchVars,
                      a_config, a_headers>>

SpecAuth == Init /\ [][CallToHeaders]_vars

SpecRequest == Init /\ [][CallToTokenRequestData]_vars

ApiQueryCommandValid(c) ==
  /\ c.swagger_url # <<>>
  /\ c.user_query # <<>>
  /\ 1 <= c.max_endpoints /\ c.max_endpoints <= 20

\* attrs: the properties the command object has besides its dataclass fields
ApiQueryCommand(swagger_url, user_query, auth_config, max_endpoints, extra_headers) ==
  [swagger_url |-> swagger_url, user_query |-> user_query, auth_config |-> auth_config,
   max_endpoints |-> max_endpoints, extra_headers |-> extra_headers, attrs |-> {}]

MaxEndpointsChoices == {0, 1, 2, 21}

\* the commands that ApiQueryCommand(...) constructs
SrcApiCommands ==
  { c \in { ApiQueryCommand(u, q, a, m, NoneOpt) :
              u \in { <<>>, <<"https://host", "/docs">> },
              q \in { <<>>, <<"q">> },
              a \in { AuthConfig("none", None, None, None, None),
                      AuthConfig("bearer", "tok", None, None, None) },
              m \in MaxEndpointsChoices } :
      ApiQueryCommandValid(c) }

\* The handler and the input adapters are written against a command whose
\* AuthConfig has an OAUTH2 variant carrying an OAuth2Config, and which has a
\* requires_oauth2 property.
OAuth2AwareCommand(swagger_url, user_query, auth_config, oauth2_config, max_endpoints, extra_headers) ==
  [swagger_url |-> swagger_url, user_query |-> user_query,
   auth_config |-> auth_config @@ ("oauth2_config" :> oauth2_config),
   max_endpoints |-> max_endpoints, extra_headers |-> extra_headers,
   attrs |-> {"requires_oauth2"}]

requires_oauth2(cmd) == cmd.auth_config["auth_type"] = "oauth2"

OAuth2AwareCommands ==
  { c \in ( { OAuth2AwareCommand(<<"https://host", "/docs">>, <<"q">>, a, NoneOpt, m, NoneOpt) :
                a \in { AuthConfig("none", None, None, None, None),
                        AuthConfig("bearer", "tok", None, None, None),
                        AuthConfig("oauth2", None, None, None, None) },
                m \in MaxEndpointsChoices }
            \cup
            { OAuth2AwareCommand(<<"https://host", "/docs">>, <<"q">>,
                                 AuthConfig("oauth2", None, None, None, None), Some(cfg), m, NoneOpt) :
                cfg \in { c \in Configs : c.grant_type = "client_credentials" }, m \in MaxEndpointsChoices } ) :
      ApiQueryCommandValid(c) }

ApiCommands == SrcApiCommands \cup OAuth2AwareCommands

-----------------------------------------------------------------------------
(* QueryResult *)

QueryResult(status, response_text, analysis, data, metadata, error) ==
  [status |-> status, response_text |-> response_text, analysis |-> analysis,
   data |-> data, metadata |-> metadata, error |-> error]

\* an except branch that forgets error=str(exc)
ErrorResult_NoMessage(exc) ==
  QueryResult("error", <<>>, NoneOpt, <<>>, EmptyDict, NoneOpt)

\* the except branch of handle(): QueryResult(status=ERROR, response_text='', error=str(exc))
ErrorResult(exc) ==
  QueryResult("error", <<>>, NoneOpt, <<>>, EmptyDict, Some(exc.message))

\* state.get('error') as an Optional text
ErrorOpt(st) == IF "error" \in DOMAIN st THEN Some(st["error"]) ELSE NoneOpt

\* str(agent_response.get('final_response', ''))
ResponseText(st) == IF "final_response" \in DOMAIN st THEN StrOpt(st["final_response"]) ELSE <<>>

\* str(agent_response.get('analysis', '')) if agent_response.get('analysis') else None
ResultAnalysis(st) ==
  IF "analysis" \in DOMAIN st /\ st["analysis"] # <<>> THEN Some(st["analysis"]) ELSE NoneOpt

_extract_endpoint_paths(endpoints) ==
  [i \in 1..Len(endpoints) |-> <<endpoints[i].method, " ", endpoints[i].path>>]

\* lines 43-65 of ApiQueryHandler.handle
ApiResult(cmd, agent_response) ==
  LET error == ErrorOpt(agent_response)
      status == IF HasError(agent_response) THEN "error" ELSE "success"
      metadata ==
        ("endpoints_discovered" :> Get(agent_response, "total_endpoints", 0))
        @@ ("endpoints_used" :> _extract_endpoint_paths(Get(agent_response, "selected_endpoints", <<>>)))
        @@ ("step" :> Get(agent_response, "step", None))
        @@ (IF requires_oauth2(cmd) THEN ("auth_type" :> "oauth2") ELSE EmptyDict)
  IN QueryResult(status, ResponseText(agent_response), ResultAnalysis(agent_response),
                 Get(agent_response, "api_data", <<>>), metadata,
                 IF HasError(agent_response) THEN error ELSE NoneOpt)

-----------------------------------------------------------------------------
(* ApiQueryHandler *)

\* the handler's own key: f"{token_url}:{client_id}"
HandlerKey(config) == config.token_url \o <<":">> \o FmtOpt(config.client_id)

\* _get_auth_headers up to the call of the provider: static headers, an
\* exception, or the need for an OAuth2 token
_get_auth_headers(cmd, wired) ==
  IF "requires_oauth2" \notin cmd.attrs THEN
    [kind |-> "raise", headers |-> EmptyDict,
     exc |-> Some(Exc("AttributeError",
                      <<"'ApiQueryCommand' object has no attribute 'requires_oauth2'">>, None))]
  ELSE IF requires_oauth2(cmd) /\ cmd.auth_config["oauth2_config"] # NoneOpt THEN
    IF ~wired THEN
      [kind |-> "raise", headers |-> EmptyDict,
       exc |-> Some(Exc("ValueError",
                        <<"OAuth2 authentication requested but no OAuth2TokenProvider configured.">>,
                        None))]
    ELSE [kind |-> "oauth2", headers |-> EmptyDict, exc |-> NoneOpt]
  ELSE [kind |-> "headers", headers |-> get_headers(cmd), exc |-> NoneOpt]

\* the state handed to the agent runner
InitialApiState(cmd, auth_headers) ==
  ("swagger_url" :> cmd.swagger_url) @@ ("user_query" :> cmd.user_query)
  @@ ("auth_headers" :> auth_headers) @@ ("max_endpoints" :> cmd.max_endpoints)

StartApiPipeline(cmd, auth_headers) ==
  /\ h_pc' = "running"
  /\ state' = InitialApiState(cmd, auth_headers)
  /\ stage' = "discover"
  /\ result' = NoneOpt

\* a failed auth resolution that runs the pipeline without auth headers
FailHandle_SilentFallback(exc) ==
  /\ h_pc' = "running"
  /\ state' = InitialApiState(command', EmptyDict)
  /\ stage' = "discover"
  /\ result' = NoneOpt

FailHandle(exc) ==
  /\ h_pc' = "done"
  /\ state' = EmptyDict
  /\ stage' = "none"
  /\ result' = Some(ErrorResult(exc))

\* ApiQueryHandler.handle(command) up to the first blocking call
ApiHandle ==
  \E cmd \in ApiCommands :
    LET auth == _get_auth_headers(cmd, provider_wired) IN
    /\ h_pc = "idle"
    /\ p_pc = "idle"
    /\ command' = cmd
    /\ raised' = NoneOpt
    /\ http_log' = <<>>
    /\ llm_log' = <<>>
    /\ IF auth.kind = "raise" THEN
         /\ FailHandle(auth.exc[1])
         /\ exc_log' = <<Caught("auth", auth.exc[1])>>
         /\ UNCHANGED oauthVars
       ELSE IF auth.kind = "headers" THEN
         /\ StartApiPipeline(cmd, auth.headers)
         /\ exc_log' = <<>>
         /\ UNCHANGED oauthVars
       ELSE
         LET oauth2_config == cmd.auth_config["oauth2_config"][1]
             cache_key == HandlerKey(oauth2_config)
             current_token == IF cache_key \in DOMAIN _oauth2_tokens
                              THEN Some(_oauth2_tokens[cache_key]) ELSE NoneOpt
         IN
         /\ GetValidTokenStart(oauth2_config, current_token)
         /\ h_pc' = "auth"
         /\ exc_log' = <<>>
         /\ UNCHANGED <<state, stage, result>>
    /\ UNCHANGED <<provider_wired, _oauth2_tokens, _engines, db_log, authVars, concVars, matchVars>>

\* get_valid_token has returned or raised inside _get_oauth2_headers
ApiHandleAuthReturn ==
  /\ h_pc = "auth"
  /\ p_pc = "done"
  /\ command' = command
  /\ IF p_result.kind = "token" THEN
       LET token == p_result.token[1]
           headers == IF command.extra_headers # NoneOpt /\ command.extra_headers[1] # EmptyDict
                      THEN Update(as_header(token), command.extra_headers[1])
                      ELSE as_header(token)
       IN
       /\ _oauth2_tokens' = Put(_oauth2_tokens, HandlerKey(p_config), token)
       /\ StartApiPipeline(command, headers)
       /\ UNCHANGED exc_log
     ELSE
       /\ FailHandle(p_result.exc[1])
       /\ exc_log' = Append(exc_log, Caught("auth", p_result.exc[1]))
       /\ UNCHANGED _oauth2_tokens
  /\ p_pc' = "idle"
  /\ p_op' = "none"
  /\ p_current' = NoneOpt
  /\ p_ttr' = NoneOpt
  /\ p_log' = <<>>
  /\ p_result' = NoResult
  /\ p_resp' = NoneOpt
  /\ UNCHANGED <<now, token_cache, p_config, provider_wired, _engines, raised,
                 http_log, db_log, llm_log, authVars, concVars, matchVars>>

\* one node of the API graph runs
ApiNode(name, next, out) ==
  /\ h_pc = "running"
  /\ "swagger_url" \in DOMAIN state
  /\ stage = name
  /\ state' = out.state
  /\ http_log' = http_log \o out.http
  /\ llm_log' = llm_log \o out.llm
  /\ exc_log' = exc_log \o out.excs
  /\ stage' = next
  /\ UNCHANGED <<oauthVars, handlerVars, authVars, concVars, matchVars, _engines, raised, db_log>>

ApiDiscover ==
  \E fetched \in FetchOutcomes : ApiNode("discover", "select", discover(state, fetched))

ApiSelectEndpoints ==
  \E plan \in PlannerOutcomes : ApiNode("select", "fetch", select_endpoints(state, plan))

ApiFetchData ==
  \E responses \in [1..Len(Get(state, "selected_endpoints", <<>>)) -> ExecOutcomes] :
    ApiNode("fetch", "analyze", fetch_data(state, responses))

ApiAnalyze ==
  \E summary \in SummarizerOutcomes : ApiNode("analyze", "finalize", analyze(state, summary))

ApiFinalize == ApiNode("finalize", "END", finalize(state))

\* the agent runner has returned the terminal state to handle()
ApiHandleReturn ==
  /\ h_pc = "running"
  /\ "swagger_url" \in DOMAIN state
  /\ stage = "END"
  /\ result' = Some(ApiResult(command, state))
  /\ h_pc' = "done"
  /\ UNCHANGED <<oauthVars, pipelineVars, authVars, concVars, matchVars, provider_wired, _oauth2_tokens, command>>

\* handle() has returned; the handler is ready for the next command
HandlerReset ==
  /\ h_pc = "done"
  /\ h_pc' = "idle"
  /\ command' = EmptyDict
  /\ state' = EmptyDict
  /\ stage' = "none"
  /\ raised' = NoneOpt
  /\ http_log' = <<>>
  /\ db_log' = <<>>
  /\ llm_log' = <<>>
  /\ exc_log' = <<>>
  /\ result' = NoneOpt
  /\ UNCHANGED <<oauthVars, authVars, concVars, matchVars, provider_wired, _oauth2_tokens, _engines>>

NextApi ==
  \/ ApiHandle
  \/ RefreshResponse
  \/ ObtainResponse
  \/ ApiHandleAuthReturn
  \/ ApiDiscover
  \/ ApiSelectEndpoints
  \/ ApiFetchData
  \/ ApiAnalyze
  \/ ApiFinalize
  \/ ApiHandleReturn
  \/ HandlerReset

SpecApi == Init /\ [][NextApi]_vars

-----------------------------------------------------------------------------
(* Texts inspected character by character (table names, user queries) *)

CharLower(c) ==
  CASE c = "O" -> "o"
    [] c = "U" -> "u"
    [] c = "X" -> "x"
    [] OTHER -> c

\* str.lower()
Lower(text) == [i \in 1..Len(text) |-> CharLower(text[i])]

\* needle in hay
Contains(hay, needle) ==
  \E i \in 0..(Len(hay) - Len(needle)) : SubSeq(hay, i + 1, i + Len(needle)) = needle

-----------------------------------------------------------------------------
(* SQL statements: a sequence of tokens (keywords, names, blanks, ";") *)

SqlTokenUpper(tok) ==
  CASE tok \in {"select", "Select", "SELECT"} -> "SELECT"
    [] tok \in {"drop", "DROP"} -> "DROP"
    [] tok \in {"limit", "LIMIT"} -> "LIMIT"
    [] OTHER -> tok

SqlUpper(sql) == [i \in 1..Len(sql) |-> SqlTokenUpper(sql[i])]

RECURSIVE LStrip(_, _)
LStrip(sql, chars) ==
  IF sql # <<>> /\ Head(sql) \in chars THEN LStrip(Tail(sql), chars) ELSE sql

RECURSIVE RStrip(_, _)
RStrip(sql, chars) ==
  IF sql # <<>> /\ sql[Len(sql)] \in chars THEN RStrip(SubSeq(sql, 1, Len(sql) - 1), chars)
  ELSE sql

\* query.strip().upper()
Sanitized(query) == SqlUpper(RStrip(LStrip(query, {" "}), {" "}))

RowLimit == 500

-----------------------------------------------------------------------------
(* SqlAlchemyDatabaseRepository *)

\* _get_engine: the engine cache after the call
_get_engine(engines, database_url) ==
  IF database_url \in DOMAIN engines THEN engines
  ELSE Put(engines, database_url, Cardinality(DOMAIN engines) + 1)

\* what the database answers to an executed statement
DbExecOutcomes ==
  { [kind |-> "rows", rows |-> <<>>, exc |-> NoneOpt],
    [kind |-> "rows", rows |-> <<"row">>, exc |-> NoneOpt],
    [kind |-> "raise", rows |-> <<>>,
     exc |-> Some(Exc("OperationalError", <<"no such table">>, None))] }

\* fetch_rows without the SELECT validation
fetch_rows_NoSelectCheck(query, limit, outcome) ==
  LET sanitized_query == Sanitized(query)
      limited_query == IF \E i \in 1..Len(sanitized_query) : sanitized_query[i] = "LIMIT"
                       THEN query
                       ELSE RStrip(query, {";"}) \o <<" LIMIT ", limit>>
  IN [sent |-> << [call |-> "execute", sql |-> limited_query] >>,
      rows |-> outcome.rows, exc |-> outcome.exc]

\* fetch_rows(database_url, query, limit) when the database answers outcome:
\* the statements sent to the connection and the rows or the exception
fetch_rows(query, limit, outcome) ==
  LET sanitized_query == Sanitized(query)
      limited_query == IF \E i \in 1..Len(sanitized_query) : sanitized_query[i] = "LIMIT"
                       THEN query
                       ELSE RStrip(query, {";"}) \o <<" LIMIT ", limit>>
  IN
  IF sanitized_query = <<>> \/ Head(sanitized_query) # "SELECT" THEN
    [sent |-> <<>>, rows |-> <<>>,
     exc |-> Some(Exc("ValueError", <<"Solo se permiten consultas SELECT">>, None))]
  ELSE
    [sent |-> << [call |-> "execute", sql |-> limited_query] >>,
     rows |-> outcome.rows, exc |-> outcome.exc]

OrdersTable == <<"o", "r", "d", "e", "r", "s">>
UsersTable == <<"u", "s", "e", "r", "s">>

TableNames == { <<"o">>, <<"O", "u">>, <<"x">>, OrdersTable, UsersTable }

Schemas ==
  { <<>>, << <<"o">> >>, << <<"O", "u">>, <<"x">> >>, << <<"x">>, <<"o">>, <<"O", "u">> >>,
    <<OrdersTable, UsersTable>> }

\* what describe_schema can produce: the tables' metadata or an exception
\* (raised by create_engine, or later by the inspector)
DescribeOutcomes ==
  { [kind |-> "tables", tables |-> t, exc |-> NoneOpt] : t \in Schemas }
  \cup { [kind |-> k, tables |-> <<>>,
          exc |-> Some(Exc("OperationalError", <<"unable to open database">>, None))] :
           k \in {"raise_create_engine", "raise_inspect"} }

-----------------------------------------------------------------------------
(* LLM chains of the database agent *)

PlannedQueries ==
  { ("table" :> <<"o">>) @@ ("sql" :> <<"select", " ", "o">>),
    ("table" :> <<"o">>) @@ ("sql" :> <<"DROP", " ", "o">>),
    ("table" :> <<"o">>) @@ ("sql" :> <<>>),
    ("table" :> <<"x">>),
    ("table" :> <<"x">>) @@ ("sql" :> <<" ", "Select", " ", "x", " ", "limit", " ", "1", ";">>) }

MaxPlanned == 2

\* outcome of self._planner.invoke(...): a list, a dict with "queries", a dict
\* without it, a JSON string, or an exception
DbPlannerOutcomes ==
  { [kind |-> k, queries |-> qs, exc |-> NoneOpt] :
       k \in {"list", "dict"}, qs \in SeqsUpTo(PlannedQueries, MaxPlanned) }
  \cup { [kind |-> "dict_without_queries", queries |-> <<>>, exc |-> NoneOpt],
         [kind |-> "str", queries |-> <<>>, exc |-> NoneOpt],
         [kind |-> "raise", queries |-> <<>>,
          exc |-> Some(Exc("OutputParserException", <<"Invalid json output">>, None))] }

-----------------------------------------------------------------------------
(* DatabaseAgentActions: each node as a function of the state and of what   *)
(* the collaborators answer; exc is the exception the node lets escape       *)

DbNodeResult(st, db, llm, engines, exc) ==
  [state |-> st, db |-> db, llm |-> llm, engines |-> engines, exc |-> exc]

summary(tables) == [i \in 1..Len(tables) |-> <<"Tabla: ">> \o tables[i]]

load_schema(st, engines, described) ==
  LET call == [call |-> "describe_schema", sql |-> <<>>] IN
  IF described.kind = "raise_create_engine" THEN
    DbNodeResult(st, <<call>>, <<>>, engines, described.exc)
  ELSE IF described.kind = "raise_inspect" THEN
    DbNodeResult(st, <<call>>, <<>>, _get_engine(engines, st["database_url"]), described.exc)
  ELSE
    DbNodeResult(Update(st, ("schema_summary" :> summary(described.tables))
                            @@ ("schema_tables" :> described.tables)
                            @@ ("step" :> "schema_loaded")),
                 <<call>>, <<>>, _get_engine(engines, st["database_url"]), NoneOpt)

\* a select_tables that caps the fallback only
select_tables_MatchesUncapped(st, engines) ==
  LET user_query == Lower(st["user_query"])
      available_tables == Get(st, "schema_tables", <<>>)
      matching == SelectSeq(available_tables, LAMBDA table : Contains(user_query, Lower(table)))
      selected == IF matching = <<>>
                  THEN Take(available_tables, Get(st, "max_tables", 10))
                  ELSE matching
  IN DbNodeResult(Update(st, ("selected_tables" :> selected) @@ ("step" :> "tables_selected")),
                  <<>>, <<>>, engines, NoneOpt)

select_tables(st, engines) ==
  LET user_query == Lower(st["user_query"])
      available_tables == Get(st, "schema_tables", <<>>)
      matching == SelectSeq(available_tables, LAMBDA table : Contains(user_query, Lower(table)))
      selected == IF matching = <<>>
                  THEN Take(available_tables, Get(st, "max_tables", 10))
                  ELSE matching
  IN DbNodeResult(Update(st, ("selected_tables" :> Take(selected, Get(st, "max_tables", 10)))
                             @@ ("step" :> "tables_selected")),
                  <<>>, <<>>, engines, NoneOpt)

\* a plan_queries that stores the whole plan
plan_queries_Uncapped(st, engines, plan) ==
  IF Get(st, "selected_tables", <<>>) = <<>> THEN
    DbNodeResult(Update(st, ("error" :> <<"No se encontraron tablas para consultar">>)),
                 <<>>, <<>>, engines, NoneOpt)
  ELSE IF plan.kind = "raise" THEN
    DbNodeResult(st, <<>>, <<"planner">>, engines, plan.exc)
  ELSE IF plan.kind = "str" THEN
    DbNodeResult(st, <<>>, <<"planner">>, engines,
                 Some(Exc("AttributeError", <<"'str' object has no attribute 'get'">>, None)))
  ELSE
    DbNodeResult(Update(st, ("planned_queries" :> plan.queries) @@ ("step" :> "queries_planned")),
                 <<>>, <<"planner">>, engines, NoneOpt)

plan_queries(st, engines, plan) ==
  IF Get(st, "selected_tables", <<>>) = <<>> THEN
    DbNodeResult(Update(st, ("error" :> <<"No se encontraron tablas para consultar">>)),
                 <<>>, <<>>, engines, NoneOpt)
  ELSE IF plan.kind = "raise" THEN
    DbNodeResult(st, <<>>, <<"planner">>, engines, plan.exc)
  ELSE IF plan.kind = "str" THEN
    DbNodeResult(st, <<>>, <<"planner">>, engines,
                 Some(Exc("AttributeError", <<"'str' object has no attribute 'get'">>, None)))
  ELSE
    DbNodeResult(Update(st, ("planned_queries" :> Take(plan.queries, Get(st, "max_tables", 10)))
                            @@ ("step" :> "queries_planned")),
                 <<>>, <<"planner">>, engines, NoneOpt)

\* the loop of execute_queries from the i-th planned query on; acc carries
\* the results and the database calls so far
RECURSIVE ExecuteLoop(_, _, _, _)
ExecuteLoop(queries, answers, i, acc) ==
  IF i > Len(queries) THEN acc
  ELSE
    LET sql == Get(queries[i], "sql", <<>>) IN
    IF sql = <<>> THEN ExecuteLoop(queries, answers, i + 1, acc)
    ELSE
      LET fetched == fetch_rows(sql, RowLimit, answers[i])
          table == Get(queries[i], "table", <<>>)
      IN
      IF fetched.exc # NoneOpt THEN
        [results |-> acc.results, db |-> acc.db \o fetched.sent, exc |-> fetched.exc,
         engine_used |-> TRUE]
      ELSE
        ExecuteLoop(queries, answers, i + 1,
                    [results |-> Append(acc.results,
                                        [table |-> table, source |-> table,
                                         sql |-> sql, data |-> fetched.rows]),
                     db |-> acc.db \o fetched.sent, exc |-> NoneOpt, engine_used |-> TRUE])

\* answers[i] is what the database answers to the i-th planned query
execute_queries(st, engines, answers) ==
  LET looped == ExecuteLoop(Get(st, "planned_queries", <<>>), answers, 1,
                            [results |-> <<>>, db |-> <<>>, exc |-> NoneOpt,
                             engine_used |-> FALSE])
      engines_after == IF looped.engine_used THEN _get_engine(engines, st["database_url"])
                       ELSE engines
  IN
  IF looped.exc # NoneOpt THEN DbNodeResult(st, looped.db, <<>>, engines_after, looped.exc)
  ELSE DbNodeResult(Update(st, ("query_results" :> looped.results)
                               @@ ("step" :> "queries_executed")),
                    looped.db, <<>>, engines_after, NoneOpt)

db_analyze(st, engines, summarized) ==
  IF summarized.kind = "raise" THEN
    DbNodeResult(st, <<>>, <<"summarizer">>, engines, summarized.exc)
  ELSE
    DbNodeResult(Update(st, ("analysis" :> summarized.text) @@ ("step" :> "analysis_complete")),
                 <<>>, <<"summarizer">>, engines, NoneOpt)

db_finalize(st, engines) ==
  DbNodeResult(Update(st, ("final_response" :> AnalysisOpt(st)) @@ ("step" :> "complete")),
               <<>>, <<>>, engines, NoneOpt)

-----------------------------------------------------------------------------
(* DatabaseQueryCommand and DatabaseQueryHandler *)

DatabaseQueryCommand(database_url, user_query, max_tables, query_timeout) ==
  [database_url |-> database_url, user_query |-> user_query,
   max_tables |-> max_tables, query_timeout |-> query_timeout]

\* a timeout that is given is never looked at
DatabaseQueryCommandValid_NoTimeoutCheck(c) ==
  /\ c.database_url # ""
  /\ c.user_query # <<>>
  /\ 1 <= c.max_tables /\ c.max_tables <= 10

DatabaseQueryCommandValid(c) ==
  /\ c.database_url # ""
  /\ c.user_query # <<>>
  /\ 1 <= c.max_tables /\ c.max_tables <= 10
  /\ c.query_timeout # NoneOpt => c.query_timeout[1] > 0

MaxTablesChoices == {0, 1, 2, 11}

HowManyOrders ==
  <<"h", "o", "w", " ", "m", "a", "n", "y", " ", "o", "r", "d", "e", "r", "s">>

\* the commands that DatabaseQueryCommand(...) constructs
DbCommands ==
  { c \in ( { DatabaseQueryCommand(u, q, m, t) :
                u \in { "", "sqlite:///a" },
                q \in { <<"h", "o", "u">>, <<"z">>, <<>>, HowManyOrders },
                m \in MaxTablesChoices,
                t \in { NoneOpt, Some(0) } }
            \cup
            { DatabaseQueryCommand(u, q, m, Some(5)) :
                u \in { "", "sqlite:///a" }, q \in { <<>>, <<"z">> }, m \in {0, 1, 11} } ) :
      DatabaseQueryCommandValid(c) }

\* a status taken from the step marker instead of the error
DbResult_StatusFromStep(agent_response) ==
  QueryResult(IF Get(agent_response, "step", None) = "error" THEN "error" ELSE "success",
              ResponseText(agent_response), ResultAnalysis(agent_response),
              Get(agent_response, "query_results", <<>>),
              ("tables_analyzed" :> Get(agent_response, "selected_tables", <<>>))
              @@ ("step" :> Get(agent_response, "step", None))
              @@ ("schema_summary" :> Get(agent_response, "schema_summary", <<>>)),
              IF HasError(agent_response) THEN ErrorOpt(agent_response) ELSE NoneOpt)

\* lines 28-44 of DatabaseQueryHandler.handle
DbResult(agent_response) ==
  QueryResult(IF HasError(agent_response) THEN "error" ELSE "success",
              ResponseText(agent_response), ResultAnalysis(agent_response),
              Get(agent_response, "query_results", <<>>),
              ("tables_analyzed" :> Get(agent_response, "selected_tables", <<>>))
              @@ ("step" :> Get(agent_response, "step", None))
              @@ ("schema_summary" :> Get(agent_response, "schema_summary", <<>>)),
              IF HasError(agent_response) THEN ErrorOpt(agent_response) ELSE NoneOpt)

\* DatabaseQueryHandler.handle(command) up to the call of the agent runner
DbHandle ==
  \E cmd \in DbCommands :
    /\ h_pc = "idle"
    /\ command' = cmd
    /\ h_pc' = "running"
    /\ state' = ("database_url" :> cmd.database_url) @@ ("user_query" :> cmd.user_query)
                @@ ("max_tables" :> cmd.max_tables) @@ ("query_timeout" :> cmd.query_timeout)
    /\ stage' = "load_schema"
    /\ raised' = NoneOpt
    /\ http_log' = <<>>
    /\ db_log' = <<>>
    /\ llm_log' = <<>>
    /\ exc_log' = <<>>
    /\ result' = NoneOpt
    /\ UNCHANGED <<oauthVars, authVars, concVars, matchVars, provider_wired, _oauth2_tokens, _engines>>

\* one node of the database graph runs; an exception it lets escape ends
\* the run of the graph
DbNode(name, next, out) ==
  /\ h_pc = "running"
  /\ "database_url" \in DOMAIN state
  /\ stage = name
  /\ db_log' = db_log \o out.db
  /\ llm_log' = llm_log \o out.llm
  /\ _engines' = out.engines
  /\ IF out.exc # NoneOpt THEN
       /\ raised' = out.exc
       /\ exc_log' = Append(exc_log, Caught("runner", out.exc[1]))
       /\ stage' = "raised"
       /\ state' = state
     ELSE
       /\ raised' = raised
       /\ exc_log' = exc_log
       /\ stage' = next
       /\ state' = out.state
  /\ UNCHANGED <<oauthVars, handlerVars, authVars, concVars, matchVars, http_log>>

DbLoadSchema ==
  \E described \in DescribeOutcomes :
    DbNode("load_schema", "select_tables", load_schema(state, _engines, described))

\* a graph whose select_tables node leads back to load_schema
DbSelectTables_BackEdge == DbNode("select_tables", "load_schema", select_tables(state, _engines))

DbSelectTables == DbNode("select_tables", "plan_queries", select_tables(state, _engines))

DbPlanQueries ==
  \E plan \in DbPlannerOutcomes :
    DbNode("plan_queries", "execute_queries", plan_queries(state, _engines, plan))

DbExecuteQueries ==
  \E answers \in [1..Len(Get(state, "planned_queries", <<>>)) -> DbExecOutcomes] :
    DbNode("execute_queries", "analyze", execute_queries(state, _engines, answers))

DbAnalyze ==
  \E summarized \in SummarizerOutcomes :
    DbNode("analyze", "finalize", db_analyze(state, _engines, summarized))

DbFinalize == DbNode("finalize", "END", db_finalize(state, _engines))

\* the agent runner has returned the terminal state, or raised, to handle()
DbHandleReturn ==
  /\ h_pc = "running"
  /\ "database_url" \in DOMAIN state
  /\ stage \in {"END", "raised"}
  /\ result' = Some(IF stage = "raised" THEN ErrorResult(raised[1]) ELSE DbResult(state))
  /\ h_pc' = "done"
  /\ UNCHANGED <<oauthVars, pipelineVars, authVars, concVars, matchVars, provider_wired, _oauth2_tokens, command>>

InitDb == InitProvider /\ InitIdle /\ provider_wired = FALSE

NextDb ==
  \/ DbHandle
  \/ DbLoadSchema
  \/ DbSelectTables
  \/ DbPlanQueries
  \/ DbExecuteQueries
  \/ DbAnalyze
  \/ DbFinalize
  \/ DbHandleReturn
  \/ HandlerReset

SpecDb == InitDb /\ [][NextDb]_vars

-----------------------------------------------------------------------------
(* Both handlers behind one query service, one command at a time *)

Next ==
  \/ ApiHandle
  \/ RefreshResponse
  \/ ObtainResponse
  \/ ApiHandleAuthReturn
  \/ ApiDiscover
  \/ ApiSelectEndpoints
  \/ ApiFetchData
  \/ ApiAnalyze
  \/ ApiFinalize
  \/ ApiHandleReturn
  \/ DbHandle
  \/ DbLoadSchema
  \/ DbSelectTables
  \/ DbPlanQueries
  \/ DbExecuteQueries
  \/ DbAnalyze
  \/ DbFinalize
  \/ DbHandleReturn
  \/ HandlerReset

Spec == Init /\ [][Next]_vars

-----------------------------------------------------------------------------
(* Commands handled at the same time by threads that share one handler and  *)
(* one provider: _get_oauth2_headers and the get_valid_token it calls, each *)
(* read and each write of a shared dict being one step                       *)

\* the token endpoint issues access tokens that name the identity they were
\* issued to
AccessTokenFor(config) == IF config.username = NoneOpt THEN "tokA" ELSE "tokB"

ConcResponses(config) ==
  { [kind |-> "json", body |-> b] :
      b \in { [k \in {"access_token"} |-> AccessTokenFor(config)],
              [k \in {"access_token", "expires_in"} |->
                 IF k = "access_token" THEN AccessTokenFor(config) ELSE Some(31)],
              [k \in {"access_token", "expires_in", "refresh_token"} |->
                 IF k = "access_token" THEN AccessTokenFor(config)
                 ELSE IF k = "expires_in" THEN Some(29) ELSE "r1"],
              [k \in {"error"} |-> "invalid_client"] } }
  \cup { [kind |-> "http_error", body |-> EmptyDict],
         [kind |-> "network_error", body |-> EmptyDict] }

\* lines 89-95 of _get_oauth2_headers: the thread reads the handler's token map
ConcHandle(t) ==
  \E config \in Configs :
    /\ c_pc[t] = "idle"
    /\ provider_wired
    /\ c_config' = [c_config EXCEPT ![t] = config]
    /\ c_current' = [c_current EXCEPT ![t] =
                       IF HandlerKey(config) \in DOMAIN _oauth2_tokens
                       THEN Some(_oauth2_tokens[HandlerKey(config)]) ELSE NoneOpt]
    /\ c_pc' = [c_pc EXCEPT ![t] = "get_valid_token"]
    /\ UNCHANGED <<oauthVars, handlerVars, pipelineVars, authVars, matchVars, e_pc, e_url, e_created, e_used, c_ttr, c_result>>

\* get_valid_token up to its first request: the thread reads the cache
ConcGetValidToken(t) ==
  LET plan == get_valid_token(CachedFor(c_config[t]), c_current[t], now) IN
  /\ c_pc[t] = "get_valid_token"
  /\ IF plan.do = "return" THEN
       /\ c_result' = [c_result EXCEPT ![t] = Returned(plan.token[1])]
       /\ c_pc' = [c_pc EXCEPT ![t] = "returned"]
       /\ c_ttr' = c_ttr
     ELSE IF plan.do = "refresh_token" THEN
       /\ c_result' = c_result
       /\ c_pc' = [c_pc EXCEPT ![t] = "refresh_request"]
       /\ c_ttr' = [c_ttr EXCEPT ![t] = plan.token]
     ELSE
       /\ c_result' = c_result
       /\ c_pc' = [c_pc EXCEPT ![t] = "obtain_request"]
       /\ c_ttr' = c_ttr
  /\ UNCHANGED <<oauthVars, handlerVars, pipelineVars, authVars, matchVars, e_pc, e_url, e_created, e_used, c_config, c_current>>

\* the token endpoint answers the thread's refresh request
ConcRefreshResponse(t) ==
  \E resp \in ConcResponses(c_config[t]) :
    LET out == RefreshOutcome(token_cache, c_config[t], c_ttr[t][1], resp, now) IN
    /\ c_pc[t] = "refresh_request"
    /\ token_cache' = out.cache
    /\ IF out.result.kind = "raise" /\ out.result.exc[1].type = "OAuth2Error" THEN
         /\ c_pc' = [c_pc EXCEPT ![t] = "obtain_request"]
         /\ c_result' = c_result
       ELSE
         /\ c_pc' = [c_pc EXCEPT ![t] = "returned"]
         /\ c_result' = [c_result EXCEPT ![t] = out.result]
    /\ UNCHANGED <<now, p_pc, p_op, p_config, p_current, p_ttr, p_log, p_result, p_resp>>
    /\ UNCHANGED <<handlerVars, pipelineVars, authVars, matchVars, e_pc, e_url, e_created, e_used, c_config, c_current, c_ttr>>

\* the token endpoint answers the thread's obtain request
ConcObtainResponse(t) ==
  \E resp \in ConcResponses(c_config[t]) :
    LET out == ObtainOutcome(token_cache, c_config[t], resp, now) IN
    /\ c_pc[t] = "obtain_request"
    /\ token_cache' = out.cache
    /\ c_pc' = [c_pc EXCEPT ![t] = "returned"]
    /\ c_result' = [c_result EXCEPT ![t] = out.result]
    /\ UNCHANGED <<now, p_pc, p_op, p_config, p_current, p_ttr, p_log, p_result, p_resp>>
    /\ UNCHANGED <<handlerVars, pipelineVars, authVars, matchVars, e_pc, e_url, e_created, e_used, c_config, c_current, c_ttr>>

\* lines 97-105 of _get_oauth2_headers: the thread stores the token in the
\* handler's map and goes on to authenticate its requests with it; an
\* exception of get_valid_token ends the command
ConcStoreToken(t) ==
  /\ c_pc[t] = "returned"
  /\ IF c_result[t].kind = "token" THEN
       /\ _oauth2_tokens' = Put(_oauth2_tokens, HandlerKey(c_config[t]), c_result[t].token[1])
       /\ c_pc' = [c_pc EXCEPT ![t] = "using"]
     ELSE
       /\ _oauth2_tokens' = _oauth2_tokens
       /\ c_pc' = [c_pc EXCEPT ![t] = "failed"]
  /\ UNCHANGED <<oauthVars, pipelineVars, authVars, matchVars, e_pc, e_url, e_created, e_used, provider_wired, h_pc, command, result>>
  /\ UNCHANGED <<c_config, c_current, c_ttr, c_result>>

\* the thread's command has ended
ConcDone(t) ==
  /\ c_pc[t] \in {"using", "failed"}
  /\ c_pc' = [c_pc EXCEPT ![t] = "idle"]
  /\ c_current' = [c_current EXCEPT ![t] = NoneOpt]
  /\ c_ttr' = [c_ttr EXCEPT ![t] = NoneOpt]
  /\ c_result' = [c_result EXCEPT ![t] = NoResult]
  /\ UNCHANGED <<oauthVars, handlerVars, pipelineVars, authVars, matchVars, e_pc, e_url, e_created, e_used, c_config>>


NextConc ==
  \/ \E t \in Threads : ConcHandle(t)
  \/ \E t \in Threads : ConcGetValidToken(t)
  \/ \E t \in Threads : ConcRefreshResponse(t)
  \/ \E t \in Threads : ConcObtainResponse(t)
  \/ \E t \in Threads : ConcStoreToken(t)
  \/ \E t \in Threads : ConcDone(t)
  \/ ClearCache

SpecConc == InitOAuth /\ [][NextConc]_vars

-----------------------------------------------------------------------------
(* Commands of several threads on the one SqlAlchemyDatabaseRepository *)

\* line 67 of _get_engine: a thread, in describe_schema or fetch_rows of its
\* command, tests whether the cache has an engine for its database_url
GetEngineTest(t) ==
  \E database_url \in {"sqlite:///a", "sqlite:///b"} :
    /\ e_pc[t] = "idle"
    /\ e_url' = [e_url EXCEPT ![t] = database_url]
    /\ e_pc' = [e_pc EXCEPT ![t] = IF database_url \notin DOMAIN _engines
                                   THEN "create_engine" ELSE "return"]
    /\ UNCHANGED <<oauthVars, handlerVars, pipelineVars, authVars, matchVars,
                   c_pc, c_config, c_current, c_ttr, c_result, e_created, e_used>>

\* line 68: create_engine returns a new engine, which the thread stores
GetEngineCreate(t) ==
  LET engine == Cardinality(e_created) + 1 IN
  /\ e_pc[t] = "create_engine"
  /\ e_created' = e_created \cup {[url |-> e_url[t], engine |-> engine]}
  /\ _engines' = Put(_engines, e_url[t], engine)
  /\ e_pc' = [e_pc EXCEPT ![t] = "return"]
  /\ UNCHANGED <<oauthVars, handlerVars, authVars, matchVars,
                 state, stage, raised, http_log, db_log, llm_log, exc_log,
                 c_pc, c_config, c_current, c_ttr, c_result, e_url, e_used>>

\* line 69: the thread reads the cache and works with the engine it finds
GetEngineReturn(t) ==
  /\ e_pc[t] = "return"
  /\ e_used' = e_used \cup {[url |-> e_url[t], engine |-> _engines[e_url[t]]]}
  /\ e_pc' = [e_pc EXCEPT ![t] = "idle"]
  /\ UNCHANGED <<oauthVars, handlerVars, pipelineVars, authVars, matchVars,
                 c_pc, c_config, c_current, c_ttr, c_result, e_url, e_created>>

NextEngines ==
  \/ \E t \in Threads : GetEngineTest(t)
  \/ \E t \in Threads : GetEngineCreate(t)
  \/ \E t \in Threads : GetEngineReturn(t)

SpecEngines == Init /\ [][NextEngines]_vars

-----------------------------------------------------------------------------
(* Claims about the OAuth2 token provider *)

GvtDone == p_pc = "done" /\ p_op = "get_valid_token"

\* a step that is a call of get_valid_token
GvtCallStep == p_pc = "idle" /\ p_op' = "get_valid_token"

HasRefresh(tokOpt) == tokOpt # NoneOpt /\ Truthy(tokOpt[1].refresh_token)
Usable(tokOpt, t) == tokOpt # NoneOpt /\ ~is_expired(tokOpt[1], t)

\* C2: every token get_valid_token returns is not expired at the moment it
\* is returned, whatever the cache, the supplied token and the endpoint's
\* response (any expires_in) are.
C2_ReturnedTokenNotExpired ==
  (GvtDone /\ p_result.kind = "token") => ~is_expired(p_result.token[1], now)

\* C3: when the cache holds a non-expired token under the config's key,
\* get_valid_token returns exactly that token, sends no request to the token
\* endpoint and leaves the cache alone, whatever current_token is supplied.
C3_CachedValidTokenReturned ==
  [][ (GvtCallStep /\ Usable(CachedFor(p_config'), now)) =>
        /\ p_pc' = "done"
        /\ p_result' = Returned(CachedFor(p_config')[1])
        /\ p_log' = <<>>
        /\ token_cache' = token_cache ]_vars

C3_Witness ==
  /\ GvtDone
  /\ p_log = <<>>
  /\ Usable(CachedFor(p_config), now)
  /\ p_result = Returned(CachedFor(p_config)[1])
  /\ p_current # NoneOpt
  /\ Usable(p_current, now)
  /\ p_current # CachedFor(p_config)

\* C4: in get_valid_token a refresh that was attempted either succeeded
\* (and obtain_token was not called) or, whatever made it fail, was followed
\* by exactly one obtain_token whose outcome is the outcome of the call.
C4_RefreshFailureFallsBackToObtain ==
  (GvtDone /\ p_log # <<>> /\ p_log[1] = "refresh_token") =>
     \/ p_log = <<"refresh_token">> /\ p_result.kind = "token"
     \/ p_log = <<"refresh_token", "obtain_token">>

\* C5: when neither the cached nor the supplied token is usable and one of
\* them carries a refresh token, get_valid_token attempts refresh_token with
\* the supplied token if it has a refresh token, else with the cached one.
C5_RefreshesWithRefreshCapableToken ==
  [][ ( /\ GvtCallStep
        /\ ~Usable(CachedFor(p_config'), now)
        /\ ~Usable(p_current', now)
        /\ (HasRefresh(CachedFor(p_config')) \/ HasRefresh(p_current')) ) =>
        /\ p_pc' = "refresh_request"
        /\ p_ttr' = (IF HasRefresh(p_current') THEN p_current' ELSE CachedFor(p_config')) ]_vars

-----------------------------------------------------------------------------
(* Claims about the pipelines and the handlers *)

\* the workflow state carries an error
ErrorSet(st) == "error" \in DOMAIN st

ApiRunning == h_pc = "running" /\ "swagger_url" \in DOMAIN state
DbRunning == h_pc = "running" /\ "database_url" \in DOMAIN state

SelectedEndpoints == Get(state, "selected_endpoints", <<>>)

IsSkippedRecord(rec) ==
  /\ "skipped" \in DOMAIN rec.response
  /\ rec.response["skipped"] = TRUE
  /\ "reason" \in DOMAIN rec.response
  /\ rec.response["reason"] # <<>>

\* C1: fetch_data sends execute_request only for selected endpoints whose
\* method is GET; every selected endpoint with another method causes no
\* request and appears in api_data as a record with skipped = true and a
\* reason.
C1_OnlyGetExecuted ==
  /\ \A i \in 1..Len(http_log) :
       http_log[i].call = "execute_request" =>
         /\ http_log[i].method = "GET"
         /\ \E j \in 1..Len(SelectedEndpoints) :
              /\ SelectedEndpoints[j].method = "GET"
              /\ SelectedEndpoints[j].url = http_log[i].url
  /\ "api_data" \in DOMAIN state =>
       /\ Len(state["api_data"]) = Len(SelectedEndpoints)
       /\ Len(SelectSeq(http_log, LAMBDA c : c.call = "execute_request"))
            = Len(SelectSeq(SelectedEndpoints, LAMBDA ep : ep.method = "GET"))
       /\ \A i \in 1..Len(SelectedEndpoints) :
            SelectedEndpoints[i].method # "GET" =>
              /\ state["api_data"][i].endpoint = SelectedEndpoints[i]
              /\ IsSkippedRecord(state["api_data"][i])

C1_Witness ==
  /\ "api_data" \in DOMAIN state
  /\ \E i \in 1..Len(SelectedEndpoints) :
       SelectedEndpoints[i].method = "DELETE" /\ IsSkippedRecord(state["api_data"][i])
  /\ \E i \in 1..Len(SelectedEndpoints) :
       SelectedEndpoints[i].method = "GET" /\ ~IsSkippedRecord(state["api_data"][i])
  /\ \E i \in 1..Len(http_log) : http_log[i].call = "execute_request"

\* C6: in the database pipeline, once error is set in the workflow state,
\* execute_queries, analyze and finalize call neither the database nor the
\* LLM and leave every field of the state unchanged.
C6_DbShortCircuit ==
  [][ (DbRunning /\ ErrorSet(state) /\ stage \in {"execute_queries", "analyze", "finalize"}) =>
        (state' = state /\ db_log' = db_log /\ llm_log' = llm_log) ]_vars

\* C7: in the API pipeline, once error is set in the workflow state,
\* select_endpoints, fetch_data and analyze call no collaborator and leave
\* every field of the state unchanged.
C7_ApiShortCircuit ==
  [][ (ApiRunning /\ ErrorSet(state) /\ stage \in {"select", "fetch", "analyze"}) =>
        (state' = state /\ http_log' = http_log /\ llm_log' = llm_log) ]_vars

\* the error of discover has travelled through select_endpoints, fetch_data
\* and analyze
C7_Witness ==
  /\ ApiRunning
  /\ stage = "finalize"
  /\ ErrorSet(state)
  /\ state["step"] = "error"
  /\ "discovered_endpoints" \notin DOMAIN state
  /\ DOMAIN state \cap {"selected_endpoints", "api_data", "analysis"} = {}
  /\ llm_log = <<>>
  /\ Len(http_log) = 1

Finalized(st) ==
  /\ "final_response" \in DOMAIN st
  /\ ErrorSet(st) => st["final_response"] = NoneOpt
  /\ ~ErrorSet(st) => ("analysis" \in DOMAIN st /\ st["final_response"] = Some(st["analysis"]))

\* C8: in the terminal workflow state of either pipeline, final_response is
\* null whenever error is set and equals analysis whenever it is not.
C8_Finalization ==
  (h_pc = "running" /\ stage = "END") => Finalized(state)

\* the API half of C8
C8_ApiFinalization ==
  (ApiRunning /\ stage = "END") => Finalized(state)

\* C9: when the pipeline returns a terminal state without raising, the
\* QueryResult has status ERROR iff the state's error is set and SUCCESS
\* otherwise, and an ERROR result carries the state's error string.
C9_StatusFollowsError ==
  (h_pc = "done" /\ stage = "END") =>
     /\ result # NoneOpt
     /\ ErrorSet(state) => (result[1].status = "error" /\ result[1].error = Some(state["error"]))
     /\ ~ErrorSet(state) => (result[1].status = "success" /\ result[1].error = NoneOpt)

C9_Witness ==
  /\ h_pc = "done"
  /\ stage = "END"
  /\ "database_url" \in DOMAIN state
  /\ ErrorSet(state)
  /\ result[1].status = "error"

C9_WitnessApi ==
  /\ h_pc = "done"
  /\ stage = "END"
  /\ "swagger_url" \in DOMAIN state
  /\ ErrorSet(state)
  /\ result[1].status = "error"

C9_WitnessSuccess ==
  /\ h_pc = "done"
  /\ stage = "END"
  /\ ~ErrorSet(state)
  /\ result[1].status = "success"

\* C10 as stated: every exception raised during auth resolution or by a
\* pipeline stage or collaborator becomes a QueryResult with status ERROR
\* whose error field is the exception's message.
C10_EveryExceptionIsTheResultError ==
  h_pc = "done" =>
    \A i \in 1..Len(exc_log) :
      /\ result # NoneOpt
      /\ result[1].status = "error"
      /\ result[1].error = Some(exc_log[i].exc.message)

StagePrefix(at) ==
  CASE at = "discover" -> <<"Error descubriendo endpoints: ">>
    [] at = "select" -> <<"Error seleccionando endpoints: ">>
    [] at = "analyze" -> <<"Error analizando datos: ">>

\* C10 amended: handle always returns a QueryResult; an exception that
\* escapes auth resolution or the agent runner becomes an ERROR result whose
\* error is the exception's message; an exception caught by the API nodes
\* discover, select_endpoints or analyze becomes an ERROR result whose error
\* is the node's prefix followed by the message; an exception of
\* execute_request in fetch_data is recorded as {error: message} in a record
\* of the result's data.
C10_NoExceptionLost ==
  h_pc = "done" =>
    /\ result # NoneOpt
    /\ \A i \in 1..Len(exc_log) :
         LET e == exc_log[i] IN
         IF e.at \in {"auth", "runner"} THEN
           result[1].status = "error" /\ result[1].error = Some(e.exc.message)
         ELSE IF e.at \in {"discover", "select", "analyze"} THEN
           /\ result[1].status = "error"
           /\ result[1].error = Some(StagePrefix(e.at) \o e.exc.message)
         ELSE
           \E k \in 1..Len(result[1].data) :
             result[1].data[k].response = [x \in {"error"} |-> e.exc.message]

C10_Witness ==
  /\ h_pc = "done"
  /\ "database_url" \in DOMAIN state
  /\ stage = "raised"
  /\ \E i \in 1..Len(exc_log) :
       /\ exc_log[i].at = "runner"
       /\ exc_log[i].exc.type = "OutputParserException"
       /\ result[1].error = Some(exc_log[i].exc.message)

-----------------------------------------------------------------------------
(* Claims about per-item failures and read-only execution *)

\* the planned queries that carry a statement
PlannedWithSql ==
  SelectSeq(Get(state, "planned_queries", <<>>), LAMBDA q : Get(q, "sql", <<>>) # <<>>)

\* the API half of C11: fetch_data yields one record per selected endpoint,
\* in selection order, and sends every GET request whatever the others did
C11_ApiPerItemFailures ==
  [][ (ApiRunning /\ stage = "fetch" /\ ~ErrorSet(state)) =>
        /\ "api_data" \in DOMAIN state'
        /\ Len(state'["api_data"]) = Len(SelectedEndpoints)
        /\ \A i \in 1..Len(SelectedEndpoints) :
             state'["api_data"][i].endpoint = SelectedEndpoints[i]
        /\ Len(http_log') - Len(http_log)
             = Len(SelectSeq(SelectedEndpoints, LAMBDA ep : ep.method = "GET")) ]_vars

\* C11: in both pipelines a failing call for one item does not abort the
\* others: the stage completes, and its result list holds one record per
\* item (selected endpoint, planned statement) in order.
C11_PerItemFailuresRecorded ==
  [][ /\ (DbRunning /\ stage = "execute_queries") =>
           /\ stage' = "analyze"
           /\ "query_results" \in DOMAIN state'
           /\ Len(state'["query_results"]) = Len(PlannedWithSql)
      /\ (ApiRunning /\ stage = "fetch" /\ ~ErrorSet(state)) =>
           /\ "api_data" \in DOMAIN state'
           /\ Len(state'["api_data"]) = Len(SelectedEndpoints)
           /\ \A i \in 1..Len(SelectedEndpoints) :
                state'["api_data"][i].endpoint = SelectedEndpoints[i] ]_vars

\* the statement begins with SELECT, case-insensitively, after its leading
\* blanks
BeginsWithSelect(sql) ==
  LET trimmed == LStrip(sql, {" "}) IN
  trimmed # <<>> /\ SqlTokenUpper(Head(trimmed)) = "SELECT"

\* C12: no statement that does not begin with SELECT is ever sent to the
\* database connection, and a command whose planned queries hold such a
\* statement ends with an ERROR QueryResult.
C12_ReadOnlyExecution ==
  /\ \A i \in 1..Len(db_log) :
       db_log[i].call = "execute" => BeginsWithSelect(db_log[i].sql)
  /\ ( /\ h_pc = "done"
       /\ "database_url" \in DOMAIN state
       /\ \E i \in 1..Len(PlannedWithSql) : ~BeginsWithSelect(PlannedWithSql[i]["sql"]) ) =>
       (result # NoneOpt /\ result[1].status = "error")

\* a SELECT was executed, then the DROP that follows it in the plan was
\* rejected
C12_Witness ==
  /\ h_pc = "done"
  /\ "database_url" \in DOMAIN state
  /\ Len(PlannedWithSql) = 2
  /\ BeginsWithSelect(PlannedWithSql[1]["sql"])
  /\ ~BeginsWithSelect(PlannedWithSql[2]["sql"])
  /\ Len(SelectSeq(db_log, LAMBDA c : c.call = "execute")) = 1
  /\ result[1].status = "error"
  /\ result[1].error = Some(<<"Solo se permiten consultas SELECT">>)

-----------------------------------------------------------------------------
(* Claims about auth resolution in ApiQueryHandler *)

\* the command being handled is an API command whose auth type is OAUTH2
OAuth2Command ==
  "auth_config" \in DOMAIN command /\ command.auth_config["auth_type"] = "oauth2"

\* the OAuth2Config of the command being handled (Optional)
CommandOAuth2Config == Get(command.auth_config, "oauth2_config", NoneOpt)

\* C13: for a command whose auth type is OAUTH2, a missing provider or a
\* missing OAuth2Config is fatal: the pipeline never runs and handle returns
\* an ERROR QueryResult.
C13_MissingOAuth2SetupIsFatal ==
  (OAuth2Command /\ (~provider_wired \/ CommandOAuth2Config = NoneOpt)) =>
     /\ h_pc # "running"
     /\ http_log = <<>>
     /\ h_pc = "done" => (result # NoneOpt /\ result[1].status = "error")

\* C14: get_valid_token completes before the first pipeline stage runs; when
\* auth resolution fails the agent runner is never invoked, no request is
\* sent and handle returns an ERROR QueryResult carrying the error's message.
C14_AuthBeforePipeline ==
  /\ h_pc = "auth" => (stage = "none" /\ http_log = <<>> /\ llm_log = <<>>)
  /\ (h_pc = "running" /\ OAuth2Command /\ CommandOAuth2Config # NoneOpt) =>
       (p_pc = "idle" /\ "Authorization" \in DOMAIN state["auth_headers"])
  /\ h_pc = "done" =>
       \A i \in 1..Len(exc_log) :
         exc_log[i].at = "auth" =>
           /\ stage = "none"
           /\ state = EmptyDict
           /\ http_log = <<>>
           /\ llm_log = <<>>
           /\ result # NoneOpt
           /\ result[1].status = "error"
           /\ result[1].error = Some(exc_log[i].exc.message)

\* the token request of get_valid_token failed with an OAuth2Error
C14_Witness ==
  /\ h_pc = "done"
  /\ OAuth2Command
  /\ CommandOAuth2Config # NoneOpt
  /\ provider_wired
  /\ Len(exc_log) = 1
  /\ exc_log[1].at = "auth"
  /\ exc_log[1].exc.type = "OAuth2Error"
  /\ exc_log[1].exc.error_code = "invalid_client"
  /\ http_log = <<>>
  /\ result[1].error = Some(exc_log[1].exc.message)

\* C15: for an OAUTH2 command with a config, a wired provider and no extra
\* headers, the discovery request and every GET that fetch_data executes
\* carry Authorization: <token_type> <access_token> of the token that
\* get_valid_token returned for this command.
C15_OAuth2HeaderSent ==
  (h_pc \in {"running", "done"} /\ stage # "none"
     /\ OAuth2Command /\ CommandOAuth2Config # NoneOpt) =>
    LET token == _oauth2_tokens[HandlerKey(CommandOAuth2Config[1])] IN
    \A i \in 1..Len(http_log) :
      http_log[i].headers =
        [h \in {"Authorization"} |-> <<token.token_type, " ", token.access_token>>]

\* the token endpoint answered {access_token: "abc", expires_in: 3600}; the
\* discovery request and an executed GET carry Authorization: Bearer abc
C15_Witness ==
  /\ h_pc = "done"
  /\ stage = "END"
  /\ OAuth2Command
  /\ CommandOAuth2Config # NoneOpt
  /\ CommandOAuth2Config[1].grant_type = "client_credentials"
  /\ _oauth2_tokens[HandlerKey(CommandOAuth2Config[1])] =
       OAuth2Token("abc", "Bearer", Some(3600), None, None, 0)
  /\ Len(http_log) >= 2
  /\ http_log[1].call = "discover_endpoints_from_swagger"
  /\ \E i \in 1..Len(http_log) : http_log[i].call = "execute_request"
  /\ \A i \in 1..Len(http_log) :
       http_log[i].headers = [h \in {"Authorization"} |-> <<"Bearer", " ", "abc">>]

-----------------------------------------------------------------------------
(* Claims about static auth headers *)

\* an optional text field is present
Present(s) == s # None /\ s # ""

\* C16: to_headers yields no header for NONE; exactly Authorization:
\* Bearer <token> for BEARER with a token; exactly <api_key_header>:
\* <api_key> for API_KEY with a key; exactly Authorization: Basic
\* base64(username:password) for BASIC with both; and no header otherwise.
C16_StaticHeaders ==
  a_headers # NoneOpt =>
    LET headers == a_headers[1]
        auth_type == a_config["auth_type"]
    IN
    /\ auth_type = "none" => headers = EmptyDict
    /\ auth_type = "bearer" =>
         headers = IF Present(a_config["token"])
                   THEN [h \in {"Authorization"} |-> <<"Bearer", " ", a_config["token"]>>]
                   ELSE EmptyDict
    /\ auth_type = "api_key" =>
         headers = IF Present(a_config["api_key"])
                   THEN [h \in {a_config["api_key_header"]} |-> <<a_config["api_key"]>>]
                   ELSE EmptyDict
    /\ auth_type = "basic" =>
         headers = IF Present(a_config["username"]) /\ Present(a_config["password"])
                   THEN [h \in {"Authorization"} |->
                           <<"Basic", " ", "b64(", a_config["username"], ":",
                             a_config["password"], ")">>]
                   ELSE EmptyDict

\* AuthConfig(BASIC, username="u", password="p") resolved
C16_Witness ==
  /\ a_headers # NoneOpt
  /\ a_config["auth_type"] = "basic"
  /\ a_config["username"] = "u"
  /\ a_config["password"] = "p"
  /\ a_headers[1] = [h \in {"Authorization"} |-> <<"Basic", " ", "b64(", "u", ":", "p", ")">>]

-----------------------------------------------------------------------------
(* Claims about obtain_token, refresh_token and the token cache *)

\* the exchange failed: an HTTP error status, a network failure, or a
\* response without access_token
ExchangeFailed(resp) ==
  resp.kind # "json" \/ "access_token" \notin DOMAIN resp.body

\* C17: when the exchange of obtain_token fails, obtain_token raises
\* OAuth2Error (with the response's error code when access_token is missing,
\* with no error code on a network failure), returns no token and leaves the
\* cache unchanged.
C17_ObtainTokenErrors ==
  [][ (p_pc = "obtain_request" /\ p_pc' = "done" /\ ExchangeFailed(p_resp'[1])) =>
        /\ p_result'.kind = "raise"
        /\ p_result'.token = NoneOpt
        /\ p_result'.exc[1].type = "OAuth2Error"
        /\ (p_resp'[1].kind = "json") =>
             p_result'.exc[1].error_code = Get(p_resp'[1].body, "error", None)
        /\ (p_resp'[1].kind = "network_error") => p_result'.exc[1].error_code = None
        /\ token_cache' = token_cache ]_vars

\* obtain_token answered {error: invalid_client} while the cache held a token
C17_Witness ==
  /\ p_pc = "done"
  /\ p_op = "obtain_token"
  /\ p_resp = Some([kind |-> "json", body |-> [k \in {"error"} |-> "invalid_client"]])
  /\ p_result.kind = "raise"
  /\ p_result.exc[1].error_code = "invalid_client"
  /\ CachedFor(p_config) # NoneOpt

\* C18: every failure of the refresh exchange surfaces as OAuth2Error and
\* nothing else, and leaves the cache unchanged.
C18_RefreshTokenErrors ==
  [][ (p_pc = "refresh_request" /\ p_pc' # "refresh_request" /\ ExchangeFailed(p_resp'[1])) =>
        /\ p_pc' = "done" =>
             (p_result'.kind = "raise" /\ p_result'.exc[1].type = "OAuth2Error")
        /\ token_cache' = token_cache ]_vars

\* C19: the cache changes only by a successful obtain_token or refresh_token,
\* which overwrites the entry under the config's key with the new token, and
\* by clear_cache, which empties it; get_valid_token returning a cached or a
\* supplied token writes nothing.
C19_CacheHoldsLatestToken ==
  [][ token_cache' =
        IF p_pc \in {"refresh_request", "obtain_request"} /\ p_pc' = "done"
           /\ p_result'.kind = "token"
        THEN Put(token_cache, _get_cache_key(p_config), p_result'.token[1])
        ELSE IF p_pc = "idle" /\ p_op' = "clear_cache" THEN EmptyDict
        ELSE token_cache ]_vars

\* a successful exchange has replaced a different entry under the same key,
\* next to an entry under another key
C19_Witness ==
  /\ p_pc = "done"
  /\ p_op \in {"obtain_token", "refresh_token"}
  /\ p_result.kind = "token"
  /\ token_cache[_get_cache_key(p_config)] = p_result.token[1]
  /\ p_result.token[1].obtained_at > 0
  /\ Cardinality(DOMAIN token_cache) = 2
  /\ \E k \in DOMAIN token_cache : token_cache[k] # p_result.token[1]

\* get_valid_token returned the supplied token next to an expired entry
C19_WitnessSupplied ==
  /\ GvtDone
  /\ p_log = <<>>
  /\ p_current # NoneOpt
  /\ p_result = Returned(p_current[1])
  /\ CachedFor(p_config) # NoneOpt
  /\ CachedFor(p_config) # p_current

\* C20: refresh_token with a token that has no refresh token raises
\* OAuth2Error without sending a request or touching the cache; a successful
\* refresh yields a token carrying the response's refresh token if it has
\* one, else the old token's.
C20_RefreshTokenPreserved ==
  [][ /\ (p_pc = "idle" /\ p_op' = "refresh_token"
             /\ ~Present(p_current'[1].refresh_token)) =>
           /\ p_pc' = "done"
           /\ p_result'.kind = "raise"
           /\ p_result'.exc[1].type = "OAuth2Error"
           /\ p_log' = <<>>
           /\ token_cache' = token_cache
      /\ (p_pc = "refresh_request" /\ p_pc' = "done" /\ p_result'.kind = "token") =>
           p_result'.token[1].refresh_token =
             IF "refresh_token" \in DOMAIN p_resp'[1].body
             THEN p_resp'[1].body["refresh_token"]
             ELSE p_ttr[1].refresh_token ]_vars

\* the response had no refresh_token and the new token carries the old one
C20_Witness ==
  /\ p_pc = "done"
  /\ p_op = "refresh_token"
  /\ p_result.kind = "token"
  /\ "refresh_token" \notin DOMAIN p_resp[1].body
  /\ p_result.token[1].refresh_token = "r0"
  /\ p_result.token[1].access_token = "abc"

-----------------------------------------------------------------------------
(* Claims about clear_cache and token expiry *)

\* C21: when clear_cache returns the cache has no entry for any key, and a
\* get_valid_token(config) without a supplied token that finds the cache
\* empty sends an obtain_token request: it returns nothing from the cache and
\* attempts no refresh.
C21_ClearCacheDropsAll ==
  [][ /\ (p_pc = "idle" /\ p_op' = "clear_cache") => DOMAIN token_cache' = {}
      /\ (p_pc = "idle" /\ p_op' = "get_valid_token" /\ p_current' = NoneOpt
             /\ DOMAIN token_cache = {}) =>
           /\ p_pc' = "obtain_request"
           /\ p_log' = <<"obtain_token">>
           /\ p_result'.kind = "none" ]_vars

\* clear_cache has returned, some time after construction
C21_Witness ==
  /\ p_pc = "done"
  /\ p_op = "clear_cache"
  /\ DOMAIN token_cache = {}
  /\ now > 0

\* get_valid_token without a supplied token is obtaining on an empty cache
C21_WitnessObtain ==
  /\ p_pc = "obtain_request"
  /\ p_op = "get_valid_token"
  /\ p_current = NoneOpt
  /\ p_log = <<"obtain_token">>
  /\ DOMAIN token_cache = {}
  /\ now > 0

TokensInState ==
  { token_cache[k] : k \in DOMAIN token_cache }
    \cup { p_current[i] : i \in DOMAIN p_current }
    \cup { p_result.token[i] : i \in DOMAIN p_result.token }

\* C22: a token without expires_in is expired at no time; a token with
\* expires_in = N acquired at t0 is expired at time t exactly when
\* t >= t0 + N - 30, so it stays expired once it is, and is expired from
\* acquisition when N <= 30.
C22_TokenExpiry ==
  \A tok \in TokensInState :
    /\ \A t \in 0..(MaxTime + 1) :
         IF tok.expires_in = NoneOpt THEN ~is_expired(tok, t)
         ELSE is_expired(tok, t) <=> (t >= tok.obtained_at + tok.expires_in[1] - 30)
    /\ \A t \in 0..MaxTime : is_expired(tok, t) => is_expired(tok, t + 1)
    /\ (tok.expires_in # NoneOpt /\ tok.expires_in[1] <= 30) =>
         is_expired(tok, tok.obtained_at)

\* a cached token acquired after time 0 is at the first second of its expiry
C22_Witness ==
  \E k \in DOMAIN token_cache :
    /\ token_cache[k].expires_in # NoneOpt
    /\ token_cache[k].obtained_at > 0
    /\ now = token_cache[k].obtained_at + token_cache[k].expires_in[1] - 30
    /\ is_expired(token_cache[k], now)
    /\ ~is_expired(token_cache[k], now - 1)

-----------------------------------------------------------------------------
(* Claims about the order of the stages and about repeated attempts *)

ApiStageOrder == <<"discover", "select", "fetch", "analyze", "finalize", "END">>

DbStageOrder ==
  <<"load_schema", "select_tables", "plan_queries", "execute_queries", "analyze",
    "finalize", "END">>

\* b comes right after a in order
Follows(order, a, b) == \E i \in 1..(Len(order) - 1) : order[i] = a /\ order[i + 1] = b

\* C23: a run starts at the first stage of its graph; while it runs, the stage
\* only moves to the next one of the fixed order (or, for the database graph,
\* to the raise that ends the run), so no stage is entered twice and none is
\* skipped; whatever a stage does to the state and to the collaborators
\* happens in the step that leaves that stage; the run only returns from END
\* or from a raise, and END is only entered from finalize.
C23_StageOrder ==
  [][ /\ (h_pc # "running" /\ h_pc' = "running") =>
           \/ stage' = "discover" /\ "swagger_url" \in DOMAIN state'
           \/ stage' = "load_schema" /\ "database_url" \in DOMAIN state'
      /\ (h_pc = "running" /\ h_pc' = "running" /\ stage' # stage) =>
           \/ ApiRunning /\ Follows(ApiStageOrder, stage, stage')
           \/ DbRunning /\ (Follows(DbStageOrder, stage, stage') \/ stage' = "raised")
      /\ (h_pc = "running" /\ h_pc' = "running"
             /\ <<state, http_log, db_log, llm_log, exc_log>>'
                  # <<state, http_log, db_log, llm_log, exc_log>>) => stage' # stage
      /\ (h_pc = "running" /\ h_pc' = "done") => stage \in {"END", "raised"}
      /\ (stage' = "END" /\ stage # "END") => stage = "finalize" ]_vars

\* a database run has gone through every stage and reached END
C23_Witness ==
  /\ DbRunning
  /\ stage = "END"
  /\ Get(state, "step", None) = "complete"
  /\ llm_log = <<"planner", "summarizer">>
  /\ Len(db_log) = 3

\* an API run has gone through every stage and reached END
C23_WitnessApi ==
  /\ ApiRunning
  /\ stage = "END"
  /\ Get(state, "step", None) = "complete"
  /\ llm_log = <<"planner", "summarizer">>
  /\ Len(http_log) = 3

\* the calls of one kind in a log of calls
CallsOf(log, kind) == SelectSeq(log, LAMBDA c : c.call = kind)

Occurrences(log, x) == Len(SelectSeq(log, LAMBDA e : e = x))

\* the URLs of the selected endpoints whose method is GET, in order
SelectedGetUrls ==
  LET gets == SelectSeq(SelectedEndpoints, LAMBDA ep : ep.method = "GET")
  IN [i \in 1..Len(gets) |-> gets[i].url]

RequestedUrls ==
  LET sent == CallsOf(http_log, "execute_request") IN [i \in 1..Len(sent) |-> sent[i].url]

NoRepeatedAttempt ==
  /\ Len(CallsOf(http_log, "discover_endpoints_from_swagger")) <= 1
  /\ IF "api_data" \in DOMAIN state THEN RequestedUrls = SelectedGetUrls
     ELSE RequestedUrls = <<>>
  /\ Len(CallsOf(db_log, "describe_schema")) <= 1
  /\ Len(CallsOf(db_log, "execute")) <= Len(PlannedWithSql)
  /\ Occurrences(llm_log, "planner") <= 1
  /\ Occurrences(llm_log, "summarizer") <= 1
  /\ p_log \in {<<>>, <<"refresh_token">>, <<"obtain_token">>,
                <<"refresh_token", "obtain_token">>}

\* C24: within one command the requests sent to the endpoints are exactly the
\* selected GET endpoints, once each and in order; at most one statement is
\* executed per planned query with a sql; each LLM chain is invoked at most
\* once; one get_valid_token call sends at most a refresh request followed by
\* an obtain request, the second only after the refresh has failed.
C24_NoAutomaticRetries ==
  [][ /\ NoRepeatedAttempt'
      /\ (Len(p_log') = 2 /\ Len(p_log) = 1) =>
           /\ p_pc = "refresh_request"
           /\ ExchangeFailed(p_resp'[1]) ]_vars

\* two GET endpoints were requested once each although a request raised
C24_Witness ==
  /\ ApiRunning
  /\ stage = "analyze"
  /\ Len(SelectedGetUrls) = 2
  /\ RequestedUrls = SelectedGetUrls
  /\ \E i \in 1..Len(state["api_data"]) :
        /\ DOMAIN state["api_data"][i].response = {"error"}
        /\ state["api_data"][i].response["error"] = <<"boom">>
  /\ llm_log = <<"planner">>

\* get_valid_token is obtaining after its refresh request failed
C24_WitnessFallback ==
  /\ h_pc = "auth"
  /\ p_pc = "obtain_request"
  /\ p_log = <<"refresh_token", "obtain_token">>
  /\ ExchangeFailed(p_resp[1])

-----------------------------------------------------------------------------
(* Claims about commands handled at the same time *)

\* the token was issued to the identity of config
IssuedTo(tok, config) == tok.access_token = AccessTokenFor(config)

\* the part of C25 about keys: a token a call got from the cache or from the
\* token endpoint was issued to its own config, and every cache entry lies
\* under the key of a calling config and was issued to a config with that key
C25_KeysIsolated ==
  /\ \A t \in Threads :
       (c_pc[t] = "returned" /\ c_result[t].kind = "token"
          /\ Some(c_result[t].token[1]) # c_current[t]) =>
         IssuedTo(c_result[t].token[1], c_config[t])
  /\ \A k \in DOMAIN token_cache :
       \E config \in Configs :
         _get_cache_key(config) = k /\ IssuedTo(token_cache[k], config)

\* C25: whatever the interleaving of the concurrent get_valid_token calls,
\* each call returns a token that was issued to its own config (unless it is
\* the token the caller supplied) and that is not expired, and every cache
\* entry lies under the key of a calling config and was written by a call
\* for that key.
C25_ConcurrentCallsConsistent ==
  /\ C25_KeysIsolated
  /\ \A t \in Threads :
       (c_pc[t] = "returned" /\ c_result[t].kind = "token") =>
         ~is_expired(c_result[t].token[1], now)

\* the non-expired tokens that threads handling a command for the identity
\* of config are authenticating requests with
LiveInUse(config) ==
  { c_result[t].token[1] :
      t \in { u \in Threads : /\ c_pc[u] = "using"
                               /\ _get_cache_key(c_config[u]) = _get_cache_key(config)
                               /\ ~is_expired(c_result[u].token[1], now) } }

\* C26: for each credential identity at most one non-expired token is in use
\* to authenticate requests, and no obtain_token exchange is in progress for
\* an identity whose cache entry is a non-expired token.
C26_OneLiveTokenPerIdentity ==
  /\ \A config \in Configs : Cardinality(LiveInUse(config)) <= 1
  /\ \A t \in Threads :
       c_pc[t] = "obtain_request" => ~Usable(CachedFor(c_config[t]), now)

-----------------------------------------------------------------------------
(* Claims about the stages' handling of empty and unmatched inputs *)

\* discovery has succeeded with an empty list of endpoints
ZeroDiscovered ==
  /\ "swagger_url" \in DOMAIN state
  /\ "discovered_endpoints" \in DOMAIN state
  /\ state["discovered_endpoints"] = <<>>

\* C27: once discovery has succeeded with no endpoint, the LLM is never
\* called and no endpoint request is sent; the terminal state of the pipeline
\* has error = "No se encontraron endpoints en el spec" and final_response =
\* None, and the QueryResult has status ERROR.
C27_ZeroEndpoints ==
  ZeroDiscovered =>
    /\ llm_log = <<>>
    /\ CallsOf(http_log, "execute_request") = <<>>
    /\ stage = "END" =>
         /\ ErrorSet(state)
         /\ state["error"] = <<"No se encontraron endpoints en el spec">>
         /\ "final_response" \in DOMAIN state
         /\ state["final_response"] = NoneOpt
    /\ h_pc = "done" => (result # NoneOpt /\ result[1].status = "error")

\* handle() has returned ERROR for a document without endpoints
C27_Witness ==
  /\ ZeroDiscovered
  /\ h_pc = "done"
  /\ stage = "END"
  /\ state["error"] = <<"No se encontraron endpoints en el spec">>
  /\ state["final_response"] = NoneOpt
  /\ result[1].status = "error"
  /\ result[1].error = Some(<<"No se encontraron endpoints en el spec">>)

\* name, lower-cased, occurs in the lower-cased query
NameInQuery(name, query) ==
  \E i \in 0..(Len(query) - Len(name)) :
    \A j \in 1..Len(name) : CharLower(query[i + j]) = CharLower(name[j])

\* the first n elements of seq
FirstN(seq, n) == [i \in 1..(IF n < Len(seq) THEN n ELSE Len(seq)) |-> seq[i]]

\* C28: once select_tables has run, selected_tables is the list of the
\* discovered tables whose lower-cased name occurs in the lower-cased query,
\* in discovery order and cut to max_tables, or, exactly when no table
\* matches, the first max_tables discovered tables; so it is never longer
\* than max_tables, holds only discovered tables, and is [orders] for the
\* tables [orders, users] and the query "how many orders".
C28_SelectTables ==
  (DbRunning /\ "selected_tables" \in DOMAIN state) =>
    LET tables == state["schema_tables"]
        query == state["user_query"]
        selected == state["selected_tables"]
        matching == SelectSeq(tables, LAMBDA name : NameInQuery(name, query))
    IN /\ selected = FirstN(IF matching = <<>> THEN tables ELSE matching, state["max_tables"])
       /\ Len(selected) <= state["max_tables"]
       /\ \A i \in 1..Len(selected) : \E j \in 1..Len(tables) : selected[i] = tables[j]
       /\ (tables = <<OrdersTable, UsersTable>> /\ query = HowManyOrders) =>
            selected = <<OrdersTable>>

\* [orders] was selected out of [orders, users] for "how many orders"
C28_Witness ==
  /\ DbRunning
  /\ stage = "plan_queries"
  /\ state["user_query"] = HowManyOrders
  /\ state["schema_tables"] = <<OrdersTable, UsersTable>>
  /\ state["max_tables"] = 2
  /\ state["selected_tables"] = <<OrdersTable>>

\* two of three tables matched and max_tables = 1 kept the first match
C28_WitnessCapped ==
  /\ DbRunning
  /\ stage = "plan_queries"
  /\ state["schema_tables"] = << <<"x">>, <<"o">>, <<"O", "u">> >>
  /\ state["max_tables"] = 1
  /\ state["selected_tables"] = << <<"o">> >>

\* the statement sent for the planned sql carries the row limit 500, unless
\* the planned sql brings its own LIMIT
SentWithRowLimit(sent, sql) ==
  IF \E i \in 1..Len(sql) : sql[i] \in {"limit", "LIMIT", "Limit"} THEN TRUE
  ELSE /\ Len(sent) >= 2
       /\ sent[Len(sent) - 1] = " LIMIT "
       /\ sent[Len(sent)] = 500

C29_WitnessNoTables ==
  /\ DbRunning
  /\ stage = "execute_queries"
  /\ state["selected_tables"] = <<>>
  /\ state["error"] = <<"No se encontraron tablas para consultar">>
  /\ llm_log = <<>>

\* what the selection names: an operationId and a path with a method; a bare
\* string stands for either
WantedOpId(sel) == IF sel.is_dict THEN Get(sel.d, "operation_id", "") ELSE sel.s
WantedPath(sel) == IF sel.is_dict THEN Get(sel.d, "path", "") ELSE sel.s
WantedMethod(sel) == IF sel.is_dict THEN Get(sel.d, "method", "") ELSE ""

SameMethod(a, b) == MethodUpper(a) = MethodUpper(b)

\* ep matches sel among endpoints: by the selection's non-empty operationId,
\* or, when no endpoint has that operationId, by its path and (if it gives
\* one) its method
MatchesSelection(ep, sel, endpoints) ==
  LET byOpId(e) == WantedOpId(sel) # "" /\ e.operation_id = WantedOpId(sel) IN
  \/ byOpId(ep)
  \/ /\ \A i \in 1..Len(endpoints) : ~byOpId(endpoints[i])
     /\ ep.path = WantedPath(sel)
     /\ (WantedMethod(sel) = "" \/ SameMethod(ep.method, WantedMethod(sel)))

\* C30: every entry of selected_endpoints is a discovered endpoint that
\* matches the selection it came from (the entries follow the order of the
\* selections, a selection contributing at most one entry), and there are at
\* most max_endpoints entries.
C30_SelectionsMatched ==
  "selected_endpoints" \in DOMAIN m_state =>
    LET endpoints == m_state["discovered_endpoints"]
        selected == m_state["selected_endpoints"]
    IN /\ Len(selected) <= m_state["max_endpoints"]
       /\ \A i \in 1..Len(selected) : \E j \in 1..Len(endpoints) : selected[i] = endpoints[j]
       /\ \E from \in [1..Len(selected) -> 1..Len(m_ids)] :
            /\ \A i, j \in 1..Len(selected) : i < j => from[i] < from[j]
            /\ \A i \in 1..Len(selected) :
                 MatchesSelection(selected[i], m_ids[from[i]], endpoints)

-----------------------------------------------------------------------------
(* Claims about the construction of commands *)

\* C31: a DatabaseQueryCommand is constructed iff its database_url and
\* user_query are non-empty, 1 <= max_tables <= 10 and query_timeout is absent
\* or positive; an ApiQueryCommand is constructed iff its swagger_url and
\* user_query are non-empty and 1 <= max_endpoints <= 20; a handler only ever
\* handles, and a collaborator is only ever called for, a command that
\* satisfies these conditions.
C31_ValidatedAtConstruction ==
  /\ \A u \in {"", "sqlite:///a"}, q \in {<<>>, <<"z">>}, m \in {0, 1, 11},
        t \in {NoneOpt, Some(0), Some(5)} :
       DatabaseQueryCommand(u, q, m, t) \in DbCommands
         <=> /\ u # "" /\ q # <<>>
             /\ m \in 1..10
             /\ (t = NoneOpt \/ t[1] > 0)
  /\ \A u \in {<<>>, <<"https://host", "/docs">>}, q \in {<<>>, <<"q">>},
        m \in {0, 1, 2, 21} :
       ApiQueryCommand(u, q, AuthConfig("none", None, None, None, None), m, NoneOpt)
           \in SrcApiCommands
         <=> (u # <<>> /\ q # <<>> /\ m \in 1..20)
  /\ h_pc # "idle" =>
       IF "database_url" \in DOMAIN command
       THEN /\ command.database_url # "" /\ command.user_query # <<>>
            /\ command.max_tables \in 1..10
            /\ (command.query_timeout = NoneOpt \/ command.query_timeout[1] > 0)
       ELSE /\ command.swagger_url # <<>> /\ command.user_query # <<>>
            /\ command.max_endpoints \in 1..20

\* a command with a positive timeout has been constructed and its schema read
C31_Witness ==
  /\ h_pc # "idle"
  /\ "database_url" \in DOMAIN command
  /\ command.query_timeout = Some(5)
  /\ db_log # <<>>

-----------------------------------------------------------------------------
(* Claims about the token request payload *)

\* C32: the payload built for the token request has grant_type equal to the
\* config's grant type, and client_id, client_secret, username, password,
\* scope and audience equal to the config's own values, whatever keys
\* extra_params contains.
C32_ReservedFieldsKept ==
  r_data # NoneOpt =>
    LET data == r_data[1]
        scopes == r_config["scopes"]
        own(k, present, v) == present => (k \in DOMAIN data /\ data[k] = v)
    IN /\ data["grant_type"] = r_config["grant_type"]
       /\ own("client_id", r_config["client_id"] \notin {NoneOpt, Some(<<>>)},
              r_config["client_id"][1])
       /\ own("client_secret", Present(r_config["client_secret"]), r_config["client_secret"])
       /\ own("username", r_config["username"] \notin {NoneOpt, Some(<<>>)},
              r_config["username"][1])
       /\ own("password", Present(r_config["password"]), r_config["password"])
       /\ own("scope", scopes # <<>>,
              IF Len(scopes) = 1 THEN <<scopes[1]>> ELSE <<scopes[1], " ", scopes[2]>>)
       /\ own("audience", Present(r_config["audience"]), r_config["audience"])

-----------------------------------------------------------------------------
(* Claims about the discovery of the specification *)

\* the discovery call of the command being handled, if it was made
DiscoveryCalls == CallsOf(http_log, "discover_endpoints_from_swagger")

DiscoveryFailed ==
  /\ ApiRunning
  /\ DiscoveryCalls # <<>>
  /\ "discovered_endpoints" \notin DOMAIN state

CommonPaths ==
  << "/swagger.json", "/openapi.json", "/v3/api-docs", "/v2/api-docs",
     "/api-docs", "/swagger/v1/swagger.json", "/api/swagger.json" >>

\* text occurs in message as a run of consecutive fragments
Names(message, text) ==
  \E i \in 1..Len(message) :
    i + Len(text) - 1 <= Len(message) /\ SubSeq(message, i, i + Len(text) - 1) = text

\* C33: the document at the swagger_url is tried first, then the spec URL
\* embedded in its HTML page, then the conventional paths in their order; a
\* form that fails falls through to the next, so that discovery fails only
\* after every conventional path was tried and failed, with an error that
\* names the swagger_url, which is the terminal error of the pipeline with
\* final_response null.
C33_DiscoveryFallback ==
  DiscoveryCalls # <<>> /\ ApiRunning =>
    LET requests == DiscoveryCalls[1].requests
        swagger_url == command.swagger_url
        tail == { n \in 0..Len(CommonPaths) :
                    /\ n <= Len(requests)
                    /\ \A i \in 1..n :
                         requests[Len(requests) - n + i].url = <<swagger_url[1], CommonPaths[i]>> }
    IN /\ requests[1].url = swagger_url
       /\ DiscoveryFailed =>
            /\ Len(CommonPaths) \in tail
            /\ \A i \in 1..Len(requests) : requests[i].answer # "json"
            /\ ErrorSet(state)
            /\ Names(state["error"], swagger_url)
            /\ stage = "END" => state["final_response"] = NoneOpt

-----------------------------------------------------------------------------
(* Claims about the requests of the fetch step *)

\* the URL still has a {name} placeholder
HasPlaceholder(url) == \E i \in 1..Len(url) : url[i] \in {"/items/{id}"}

\* C34: no GET request of the fetch step is sent to a URL that still contains
\* a {name} placeholder: the path parameters of a selected endpoint's URL
\* template are substituted before the request is sent.
C34_PathParametersSubstituted ==
  ApiRunning =>
    \A i \in 1..Len(http_log) :
      http_log[i].call = "execute_request" => ~HasPlaceholder(http_log[i].requested)

-----------------------------------------------------------------------------
(* Claims about the engine cache *)

\* C35: whatever the interleaving of the commands, at most one engine is
\* ever created for a database_url, and every call for that URL works with
\* that engine.
C35_OneEnginePerUrl ==
  /\ \A a, b \in e_created : a.url = b.url => a.engine = b.engine
  /\ \A u \in e_used : u \in e_created
  /\ \A a, b \in e_used : a.url = b.url => a.engine = b.engine

-----------------------------------------------------------------------------
(* Claims about the tokens of successive commands *)

\* C36: the token that authenticates a command was issued to the command's
\* own credential identity (token_url, client_id, username), whatever
\* commands the handler and the provider served before; stated for a command
\* that is alone in the handler.
C36_IdentityIsolated ==
  \A t \in Threads :
    (c_pc[t] = "using" /\ \A u \in Threads \ {t} : c_pc[u] = "idle") =>
      IssuedTo(c_result[t].token[1], c_config[t])

\* C37: after clear_cache() on the provider, a command of a handler that
\* holds a token of the command's own credentials from before the clear is
\* not authenticated with that token: as long as the provider has cached
\* nothing for these credentials since the clear, get_valid_token does not
\* return without an exchange with the token endpoint.
C37_RotationTakesEffect ==
  [][ \A t \in Threads :
        ( /\ p_op = "clear_cache"
          /\ c_pc[t] = "get_valid_token"
          /\ c_current[t] # NoneOpt
          /\ IssuedTo(c_current[t][1], c_config[t])
          /\ _get_cache_key(c_config[t]) \notin DOMAIN token_cache )
        => c_pc'[t] # "returned" ]_vars

-----------------------------------------------------------------------------
(* Claims about commands with static authentication *)

\* the command being handled is an API command with auth type NONE, BEARER,
\* API_KEY or BASIC
StaticAuthCommand ==
  /\ h_pc # "idle"
  /\ "auth_config" \in DOMAIN command
  /\ command.auth_config["auth_type"] \in {"none", "bearer", "api_key", "basic"}

\* C38: a well-formed ApiQueryCommand with static auth always reaches the
\* pipeline: handle invokes the agent runner, once, with auth_headers equal
\* to command.get_headers(), and the OAuth2 provider is never contacted.
C38_StaticAuthReachesPipeline ==
  StaticAuthCommand =>
    /\ h_pc \in {"running", "done"}
    /\ "auth_headers" \in DOMAIN state
    /\ state["auth_headers"] = get_headers(command)
    /\ h_pc = "done" => Len(CallsOf(http_log, "discover_endpoints_from_swagger")) = 1
    /\ p_pc = "idle" /\ p_log = <<>>

-----------------------------------------------------------------------------
(* Claims about the step marker *)

\* C39: the step reported in the metadata of a QueryResult is 'complete' only
\* when the pipeline recorded no error; after an error it is the error
\* marker or the last stage completed before the error.
C39_StepMarker ==
  /\ (result # NoneOpt /\ "step" \in DOMAIN result[1].metadata) =>
       (result[1].metadata["step"] = "complete" =>
          (result[1].status = "success" /\ result[1].error = NoneOpt))
  /\ (h_pc = "running" /\ stage = "END" /\ ErrorSet(state)) => state["step"] # "complete"

====
